---- MODULE Spec2Model ----
(***************************************************************************)
(* Job lifecycle saga of tsuru: the actions of job/actions.go run by the   *)
(* action pipeline executor against the quota ledger, the provisioning     *)
(* driver and the job store.                                               *)
(*                                                                         *)
(* One TLA+ action per external call site of the Go code (a ledger, driver,*)
(* directory or store call), so that concurrent invocations interleave at  *)
(* exactly the points where the Go code can be preempted by another        *)
(* request.  The code that runs between two calls is a pure operator.      *)
(***************************************************************************)
EXTENDS Integers, Sequences, FiniteSets, TLC

\* ------------------------------------------------------------------ bounds
\* Quota ceilings of every team and of every user.
TeamLimit == 2
UserLimit == 2

\* Concurrent pipeline invocations, and the universe of the inputs.
Invs == {"i1", "i2"}
Teams == {"t1", "t2"}
Emails == {"u1", "tok"}
Names == {"alpha", "beta"}

\* ------------------------------------------------------------------ values
NoErr == "nil"
ErrQuotaExceeded == "ErrQuotaExceeded"
ErrLedger == "ErrLedger"
ErrProvisioner == "ErrProvisioner"
ErrDriver == "ErrDriver"
ErrStore == "ErrStore"
ErrDuplicateKey == "ErrDuplicateKey"
ErrJobNotFound == "ErrJobNotFound"
ErrJobAlreadyExists == "ErrJobAlreadyExists"
ErrUserNotFound == "ErrUserNotFound"
ErrPipelineFewParameters == "ErrPipelineFewParameters"
ErrFirstParam == "first parameter must be *Job"
ErrSecondParam == "second parameter must be auth.User or *auth.User"
ErrCanceled == "context canceled"

NoInfra == "none"

Job(n, t) == [type |-> "job", name |-> n, team |-> t, pool |-> "p1"]
User(e, ft) == [type |-> "user", email |-> e, fromToken |-> ft]

\* A user handed by pointer (*authTypes.User), where User is one handed by
\* value (authTypes.User).
UserPtr(e, ft) == [type |-> "*user", email |-> e, fromToken |-> ft]

\* The second-parameter type switch of reserveUserCronjob.Forward: a user by
\* value or by pointer; anything else is the default case.
IsUser(p) == p.type \in {"user", "*user"}

\* A job with the fields an update changes: the desired spec, and a list field
\* that is nil or empty.
JobSpec(n, pool, v, l) ==
    [type |-> "job", name |-> n, team |-> "t1", pool |-> pool, spec |-> v, envs |-> l]
NoJob == [type |-> "none"]

\* The document the store keeps for a job: the driver writes a nil slice as an
\* empty array (BSONOptions.NilSliceAsEmpty), and reads it back as it wrote it.
Encode(job) == [job EXCEPT !.envs = IF @ = "nil" THEN "empty" ELSE @]

\* reflect.DeepEqual(*oldJob, *job): field by field, a nil slice differing from
\* an empty one.
DeepEqual(a, b) == a = b

\* action.Result: nil, a map[string]string, or a *Job.
NilResult == [kind |-> "nil"]
MapResult(m) == [kind |-> "map", m |-> m]
JobResult(j) == [kind |-> "job", job |-> j]

\* What the code between two calls decides: go on to the call at `call`, or
\* return (res, err) from the Forward; return from the Backward.
Call(p) == [call |-> p, res |-> NilResult, err |-> NoErr]
Ret(r, e) == [call |-> "", res |-> r, err |-> e]
BCall(p) == [call |-> p]
BRet == [call |-> ""]

\* The parameter lists a caller supplies: (job, user), and the job alone.
ParamChoices ==
    { <<Job("alpha", "t1"), User("u1", FALSE)>>,
      <<Job("alpha", "t1"), User("tok", TRUE)>>,
      <<Job("beta", "t2"), User("u1", FALSE)>>,
      <<Job("alpha", "t1")>> }

VARIABLES
    inv,          \* per invocation: the Execution Context and its position
    teamInUse,    \* quota ledger: jobs in use per team
    userInUse,    \* quota ledger: jobs in use per user (by email)
    store,        \* job store: the set of documents of the jobs collection
    infra,        \* orchestrator: per job name, the invocation that ensured it
    uniqueIndex   \* whether the jobs collection has a unique index on name

vars == <<inv, teamInUse, userInUse, store, infra, uniqueIndex>>

Snap == [team |-> teamInUse, user |-> userInUse, store |-> store, infra |-> infra]

\* ------------------------------------------------- job/actions.go: actions
\* MinParams with reserve-team-job declaring 1 instead of 2.
MinParamsTeamOne(a) ==
    CASE a = "reserve-team-job" -> 1
      [] a = "reserve-user-cronjob" -> 2
      [] a = "provision-job" -> 1
      [] a = "insert-job" -> 1
      [] a = "trigger-cronjob" -> 1
      [] a = "update-job" -> 1
      [] a = "update-job-db" -> 1

\* MinParams of each action.
MinParams(a) ==
    CASE a = "reserve-team-job" -> 2
      [] a = "reserve-user-cronjob" -> 2
      [] a = "provision-job" -> 1
      [] a = "insert-job" -> 1
      [] a = "trigger-cronjob" -> 1
      [] a = "update-job" -> 1
      [] a = "update-job-db" -> 1

\* provisionJob.Forward without the type switch on its first parameter.
provisionJobForwardUnchecked(params) == Call("pj_getprov")

\* provisionJob.Forward up to getProvisioner.
provisionJobForward(params) ==
    IF params[1].type # "job" THEN Ret(NilResult, ErrFirstParam)
    ELSE Call("pj_getprov")

\* provisionJob.Forward after getProvisioner returned err.
provisionJobAfterGetProv(err) ==
    IF err # NoErr THEN Ret(NilResult, err) ELSE Call("pj_ensure")

\* provisionJob.Forward after EnsureJob returned err: return nil, err.
provisionJobAfterEnsure(err) == Ret(NilResult, err)

\* provisionJob.Backward up to getProvisioner.
provisionJobBackward(params) ==
    IF params[1].type # "job" THEN BRet ELSE BCall("pjb_getprov")

\* provisionJob.Backward after getProvisioner: DestroyJob only if err == nil.
provisionJobBackwardAfterGetProv(err) ==
    IF err = NoErr THEN BCall("pjb_destroy") ELSE BRet

\* insertJob.Forward up to insertJobDB (which starts with JobsCollection()).
insertJobForward(params) ==
    IF params[1].type # "job" THEN Ret(NilResult, ErrFirstParam)
    ELSE Call("ij_coll")

\* insertJobDB after storagev2.JobsCollection() returned err.
insertJobDBAfterCollection(err) ==
    IF err # NoErr THEN Ret(NilResult, err) ELSE Call("ij_get")

\* insertJobDB without the already-exists branch: it inserts unless GetByName
\* failed for a reason other than not-found.
insertJobDBAfterGetNoExistsCheck(err) ==
    IF err = ErrJobNotFound \/ err = NoErr THEN Call("ij_insert")
    ELSE Ret(NilResult, err)

\* insertJobDB that takes every error of GetByName for not-found.
insertJobDBAfterGetAnyErrorIsAbsence(err) ==
    IF err # NoErr THEN Call("ij_insert")
    ELSE Ret(NilResult, ErrJobAlreadyExists)

\* insertJobDB after GetByName returned err: insert only on ErrJobNotFound.
insertJobDBAfterGet(err) ==
    IF err = ErrJobNotFound THEN Call("ij_insert")
    ELSE IF err = NoErr THEN Ret(NilResult, ErrJobAlreadyExists)
    ELSE Ret(NilResult, err)

\* insertJobDB with InsertOne's err shadowed (_, err := ...): the err it
\* returns is still GetByName's ErrJobNotFound.
insertJobDBAfterInsertShadowed(err) == Ret(NilResult, ErrJobNotFound)

\* insertJobDB after InsertOne returned err: return err.
insertJobDBAfterInsert(err) == Ret(NilResult, err)

\* insertJob.Forward that returns no result.
insertJobAfterDBNoResult(params, err) == Ret(NilResult, err)

\* insertJob.Forward after insertJobDB returned err.
insertJobAfterDB(params, err) ==
    IF err # NoErr THEN Ret(NilResult, err) ELSE Ret(JobResult(params[1]), NoErr)

\* insertJob.Backward: RemoveJob of the job of its own forward result.
insertJobBackward(fwResult) == BCall("ijb_remove")

\* reserveTeamCronjob.Forward up to TeamQuota.Inc(team, 1).
reserveTeamForward(params) ==
    IF params[1].type # "job" THEN Ret(NilResult, ErrFirstParam)
    ELSE Call("rt_inc")

\* reserveTeamCronjob.Forward with the error of TeamQuota.Inc dropped.
reserveTeamAfterIncErrDropped(params, err) ==
    Ret(MapResult([job |-> params[1].name, team |-> params[1].team]), NoErr)

\* reserveTeamCronjob.Forward after TeamQuota.Inc returned err.
reserveTeamAfterInc(params, err) ==
    IF err # NoErr THEN Ret(NilResult, err)
    ELSE Ret(MapResult([job |-> params[1].name, team |-> params[1].team]), NoErr)

\* reserveTeamCronjob.Backward that looks the team up under the wrong key of
\* its result, and so never decrements.
reserveTeamBackwardWrongKey(fwResult) ==
    IF fwResult.kind # "map" THEN BRet
    ELSE IF "teamowner" \in DOMAIN fwResult.m THEN BCall("rtb_dec")
    ELSE BRet

\* reserveTeamCronjob.Backward: decrement only the team of its own result.
\* (A result that is no map makes the type assertion panic: nothing is done.)
reserveTeamBackward(fwResult) ==
    IF fwResult.kind # "map" THEN BRet
    ELSE IF "team" \in DOMAIN fwResult.m THEN BCall("rtb_dec")
    ELSE BRet

\* reserveUserCronjob.Forward without the FromToken exemption.
reserveUserForwardNoExemption(params) ==
    IF params[1].type # "job" THEN Ret(NilResult, ErrFirstParam)
    ELSE IF ~IsUser(params[2]) THEN Ret(NilResult, ErrSecondParam)
    ELSE Call("ru_inc")

\* reserveUserCronjob.Forward up to UserQuota.Inc(user, 1).
reserveUserForward(params) ==
    IF params[1].type # "job" THEN Ret(NilResult, ErrFirstParam)
    ELSE IF ~IsUser(params[2]) THEN Ret(NilResult, ErrSecondParam)
    ELSE IF params[2].fromToken
         THEN Ret(MapResult([job |-> params[1].name]), NoErr)
    ELSE Call("ru_inc")

\* reserveUserCronjob.Forward that returns an error of its own in place of the
\* ledger's.
reserveUserAfterIncOwnError(params, err) ==
    IF err # NoErr THEN Ret(NilResult, ErrLedger)
    ELSE Ret(MapResult([job |-> params[1].name, user |-> params[2].email]), NoErr)

\* reserveUserCronjob.Forward with the user left out of its result.
reserveUserAfterIncNoUserKey(params, err) ==
    IF err # NoErr THEN Ret(NilResult, err)
    ELSE Ret(MapResult([job |-> params[1].name]), NoErr)

\* reserveUserCronjob.Forward after UserQuota.Inc returned err.
reserveUserAfterInc(params, err) ==
    IF err # NoErr THEN Ret(NilResult, err)
    ELSE Ret(MapResult([job |-> params[1].name, user |-> params[2].email]), NoErr)

\* reserveUserCronjob.Backward up to auth.GetUserByEmail.
reserveUserBackward(fwResult) ==
    IF fwResult.kind # "map" THEN BRet
    ELSE IF "user" \notin DOMAIN fwResult.m THEN BRet
    ELSE BCall("rub_lookup")

\* reserveUserCronjob.Backward with the test of the lookup's error inverted.
reserveUserBackwardAfterLookupInverted(err) ==
    IF err # NoErr THEN BCall("rub_dec") ELSE BRet

\* reserveUserCronjob.Backward after GetUserByEmail: Inc(-1) only if err == nil.
reserveUserBackwardAfterLookup(err) ==
    IF err = NoErr THEN BCall("rub_dec") ELSE BRet

\* triggerCron.Forward up to getProvisioner.
triggerCronForward(params) ==
    IF params[1].type # "job" THEN Ret(NilResult, ErrFirstParam)
    ELSE Call("tc_getprov")

\* triggerCron.Forward after getProvisioner returned err.
triggerCronAfterGetProv(err) ==
    IF err # NoErr THEN Ret(NilResult, err) ELSE Call("tc_trigger")

\* triggerCron.Forward with the outcome of TriggerCron dropped.
triggerCronAfterTriggerErrDropped(err) == Ret(NilResult, NoErr)

\* triggerCron.Forward after prov.TriggerCron(job, job.Pool) returned err.
triggerCronAfterTrigger(err) == Ret(NilResult, err)

\* updateJobProv.Forward up to servicemanager.Job.UpdateJobProv(job).
updateJobProvForward(params) ==
    IF params[1].type # "job" THEN Ret(NilResult, ErrFirstParam)
    ELSE Call("ujp_update")

\* updateJobProv.Forward after UpdateJobProv returned err: return nil, err.
updateJobProvAfterUpdate(err) == Ret(NilResult, err)

\* jobUpdateDB.Forward up to servicemanager.Job.GetByName(j.Name).
jobUpdateDBForward(params) ==
    IF params[1].type # "job" THEN Ret(NilResult, ErrFirstParam)
    ELSE Call("jud_get")

\* jobUpdateDB.Forward that gives up when its read of the current record fails.
jobUpdateDBAfterGetGivesUp(err, oldJob) ==
    IF err # NoErr THEN [call |-> "", res |-> NilResult, err |-> err]
    ELSE [call |-> "udb_read", res |-> JobResult(oldJob), err |-> NoErr]

\* jobUpdateDB.Forward after GetByName returned (oldJob, err): updateJobDB(j)
\* is called in both branches, and the result to return with its error is nil
\* if the read failed, oldJob otherwise.
jobUpdateDBAfterGet(err, oldJob) ==
    IF err # NoErr THEN [call |-> "udb_read", res |-> NilResult, err |-> NoErr]
    ELSE [call |-> "udb_read", res |-> JobResult(oldJob), err |-> NoErr]

\* jobUpdateDB.Backward up to updateJobDB(oldJob): nothing is done with a nil
\* result or one that is no *Job.
jobUpdateDBBackward(fwResult) ==
    IF fwResult.kind = "nil" THEN BRet
    ELSE IF fwResult.kind # "job" THEN BRet
    ELSE BCall("udb_read")

\* updateJobDB after storagev2.JobsCollection() returned err.
updateJobDBAfterCollection(err) ==
    IF err # NoErr THEN Ret(NilResult, err) ELSE Call("udb_get")

\* updateJobDB without the comparison of the two records.
updateJobDBAfterGetAlwaysWrites(err, oldJob, job) ==
    IF err # NoErr THEN Ret(NilResult, err) ELSE Call("udb_replace")

\* updateJobDB that reports a job it cannot read as updated.
updateJobDBAfterGetErrDropped(err, oldJob, job) ==
    IF err # NoErr THEN Ret(NilResult, NoErr)
    ELSE IF DeepEqual(oldJob, job) THEN Ret(NilResult, NoErr)
    ELSE Call("udb_replace")

\* updateJobDB after GetByName(job.Name) returned (oldJob, err): the error is
\* returned; an identical record returns nil without a write; else ReplaceOne.
updateJobDBAfterGet(err, oldJob, job) ==
    IF err # NoErr THEN Ret(NilResult, err)
    ELSE IF DeepEqual(oldJob, job) THEN Ret(NilResult, NoErr)
    ELSE Call("udb_replace")

\* updateJobDB after collection.ReplaceOne returned err: return err.
updateJobDBAfterReplace(err) == Ret(NilResult, err)

ForwardOf(a, params) ==
    CASE a = "reserve-team-job" -> reserveTeamForward(params)
      [] a = "reserve-user-cronjob" -> reserveUserForward(params)
      [] a = "provision-job" -> provisionJobForward(params)
      [] a = "insert-job" -> insertJobForward(params)
      [] a = "trigger-cronjob" -> triggerCronForward(params)
      [] a = "update-job" -> updateJobProvForward(params)
      [] a = "update-job-db" -> jobUpdateDBForward(params)

BackwardOf(a, params, fwResult) ==
    CASE a = "reserve-team-job" -> reserveTeamBackward(fwResult)
      [] a = "reserve-user-cronjob" -> reserveUserBackward(fwResult)
      [] a = "provision-job" -> provisionJobBackward(params)
      [] a = "insert-job" -> insertJobBackward(fwResult)
      [] a = "update-job-db" -> jobUpdateDBBackward(fwResult)

\* The actions that define a Backward.
HasBackward(a) == a \notin {"trigger-cronjob", "update-job"}

\* ------------------------------------------------------ pipeline executor
\* The creation pipeline, in the order of the saga.
CreatePipeline ==
    <<"reserve-team-job", "reserve-user-cronjob", "provision-job", "insert-job">>

\* The update pipeline: the driver is told of the new spec, then the stored
\* record is replaced.
UpdatePipeline == <<"update-job", "update-job-db">>

\* A pipeline a caller composes with the store-replace step followed by a
\* step that can fail.
ComposedPipeline == <<"update-job-db", "update-job">>

\* The trigger pipeline: a single action.
TriggerPipeline == <<"trigger-cronjob">>

\* The job Actions, by name.
JobActions ==
    {"reserve-team-job", "reserve-user-cronjob", "provision-job", "insert-job",
     "trigger-cronjob", "update-job", "update-job-db"}

\* A pipeline of one Action alone is named by the Action.
Pipeline(kind) ==
    CASE kind = "create" -> CreatePipeline
      [] kind = "update" -> UpdatePipeline
      [] kind = "composed" -> ComposedPipeline
      [] kind = "trigger" -> TriggerPipeline
      [] kind \in JobActions -> <<kind>>

\* Pre-flight validation of the step about to run.
EnoughParams(a, params) == Len(params) >= MinParams(a)

\* FwReturn with the compensation started one step too early in the list.
FwReturnSkipsOne(s, r, e) ==
    IF e = NoErr
    THEN IF s.step = Len(Pipeline(s.kind))
         THEN [s EXCEPT !.results = Append(@, r), !.out = r, !.pc = "done"]
         ELSE [s EXCEPT !.results = Append(@, r), !.pc = "fw", !.step = @ + 1]
    ELSE [s EXCEPT !.err = e, !.fwErr = e, !.failedAt = s.step,
                   !.bwIdx = s.step - 2,
                   !.pc = IF s.step <= 2 THEN "done" ELSE "bw"]

\* FwReturn that goes on with the next forward after a forward failed.
FwReturnGoesOn(s, r, e) ==
    IF s.step = Len(Pipeline(s.kind))
    THEN [s EXCEPT !.results = Append(@, r), !.out = r, !.err = e, !.pc = "done"]
    ELSE [s EXCEPT !.results = Append(@, r), !.err = e, !.fwErr = e,
                   !.failedAt = IF e = NoErr THEN @ ELSE s.step,
                   !.pc = "fw", !.step = @ + 1]

\* A forward call returned (r, e): record the result and go on (the result of
\* the last step is the output of the run), or keep the error and start the
\* compensation at the step before.
FwReturn(s, r, e) ==
    IF e = NoErr
    THEN IF s.step = Len(Pipeline(s.kind))
         THEN [s EXCEPT !.results = Append(@, r), !.out = r, !.pc = "done"]
         ELSE [s EXCEPT !.results = Append(@, r), !.pc = "fw", !.step = @ + 1]
    ELSE [s EXCEPT !.err = e, !.fwErr = e, !.failedAt = s.step,
                   !.bwIdx = s.step - 1,
                   !.pc = IF s.step = 1 THEN "done" ELSE "bw"]

\* The validation failed: the run fails at once, with no compensation.
FewParams(s) ==
    [s EXCEPT !.err = ErrPipelineFewParameters, !.pc = "done"]

\* BwReturn that calls the backward of the same step again.
BwReturnStays(s) == [s EXCEPT !.pc = "bw"]

\* A backward call returned: go on with the step before, in reverse order.
BwReturn(s) ==
    [s EXCEPT !.bwIdx = @ - 1, !.pc = IF s.bwIdx = 1 THEN "done" ELSE "bw"]

\* BwFailed with the rollback given up at the first backward that fails.
BwFailedStops(s) == [s EXCEPT !.bwFailed = TRUE, !.pc = "done"]

\* A backward call failed: logged, never escalated.
BwFailed(s) == BwReturn([s EXCEPT !.bwFailed = TRUE])

ApplyFw(s, out) ==
    IF out.call # "" THEN [s EXCEPT !.pc = out.call]
    ELSE FwReturn(s, out.res, out.err)

ApplyBw(s, out) ==
    IF out.call # "" THEN [s EXCEPT !.pc = out.call] ELSE BwReturn(s)

\* The invocation has called collaborator operation op with argument arg,
\* which returned err.
Logged(s, op, arg, err) == [s EXCEPT !.calls = Append(@, <<op, arg, err>>)]

\* The executor is about to run action a of the invocation.
StepIs(s, a) == s.pc = "fw" /\ Pipeline(s.kind)[s.step] = a
UndoIs(s, a) == s.pc = "bw" /\ Pipeline(s.kind)[s.bwIdx] = a

\* FWContext.Previous of the current step: the result of the step before, nil
\* for the first step.
PreviousFor(s) == IF s.step = 1 THEN NilResult ELSE s.results[s.step - 1]

\* FWResultFor with the most recent forward result handed to every backward.
FWResultForLatest(s) == s.results[Len(s.results)]

\* FWResultFor on a pipeline definition that keeps the results of its steps in
\* itself: the backward gets the result another invocation recorded for the
\* step, when there is one.
FWResultForShared(s) ==
    IF \E j \in Invs : inv[j] # s /\ Len(inv[j].results) >= s.bwIdx
    THEN (CHOOSE r \in {inv[j].results[s.bwIdx] :
                          j \in {k \in Invs : inv[k] # s
                                              /\ Len(inv[k].results) >= s.bwIdx}} :
            TRUE)
    ELSE s.results[s.bwIdx]

\* BWContext.FWResult of the step being compensated: that step's own result.
FWResultFor(s) == s.results[s.bwIdx]

\* The executor calls the Forward (Backward) of the current step, with the
\* context it builds for it.
EnterFw(s) ==
    [s EXCEPT !.fwLog = Append(@, s.step),
              !.fwArgs = Append(@, [params |-> s.params, previous |-> PreviousFor(s)])]
EnterBw(s) ==
    [s EXCEPT !.bwLog = Append(@, s.bwIdx),
              !.bwArgs = Append(@, [params |-> s.params, fwResult |-> FWResultFor(s)])]

\* ----------------------------------------------------------- collaborators
\* Quota ledger Inc(entity, delta) on a counter at inUse: the outcomes as
\* (err, new value).  A positive delta past the ceiling is denied and may fail
\* for a reason of the ledger's own; a negative delta never fails.
QuotaInc(inUse, limit, delta) ==
    IF delta > 0
    THEN IF inUse + delta > limit
         THEN {[err |-> ErrQuotaExceeded, v |-> inUse]}
         ELSE {[err |-> NoErr, v |-> inUse + delta], [err |-> ErrLedger, v |-> inUse]}
    ELSE {[err |-> NoErr, v |-> inUse + delta]}

\* Job store GetByName(name): the record is found, or not, or the read fails.
GetByName(name) ==
    IF \E r \in store : r.name = name
    THEN {NoErr, ErrStore}
    ELSE {ErrJobNotFound, ErrStore}

\* collection.InsertOne(job): a unique index on name rejects a second document
\* of the name with a duplicate-key error; without one the document is added.
InsertOne(name) ==
    IF uniqueIndex /\ \E r \in store : r.name = name
    THEN {ErrDuplicateKey, ErrStore}
    ELSE {NoErr, ErrStore}

\* getProvisioner, EnsureJob, DestroyJob, JobsCollection, GetUserByEmail:
\* each succeeds or fails with its own error.
GetProvisioner == {NoErr, ErrProvisioner}
DriverCall == {NoErr, ErrDriver}
JobsCollection == {NoErr, ErrStore}
GetUserByEmail == {NoErr, ErrUserNotFound}

\* -------------------------------------------------------------- invocation
Active(s) == s.pc \notin {"idle", "done"}

IdleInv(snap) ==
    [kind |-> "create", pc |-> "idle", params |-> <<>>, step |-> 0,
     results |-> <<>>, err |-> NoErr, fwErr |-> NoErr, failedAt |-> 0,
     bwIdx |-> 0, fwLog |-> <<>>, bwLog |-> <<>>, bwFailed |-> FALSE,
     fwArgs |-> <<>>, bwArgs |-> <<>>, old |-> NilResult, arg |-> NoJob,
     out |-> NilResult, ctx |-> "live",
     calls |-> <<>>, overlap |-> FALSE, order |-> 0, pre |-> snap]

\* Every counter starts one or two below its ceiling: the teams and the users
\* own other jobs already.
Init ==
    /\ \E room \in {1, 2} :
         /\ teamInUse = [t \in Teams |-> TeamLimit - room]
         /\ userInUse = [e \in Emails |-> UserLimit - room]
    /\ store = {}
    /\ infra = [n \in Names |-> NoInfra]
    /\ uniqueIndex \in BOOLEAN
    /\ inv = [i \in Invs |-> IdleInv(Snap)]

\* A caller invokes the creation pipeline: pipeline.Execute(ctx, params...).
\* pre keeps the ledger, the store and the orchestrator as they are at the
\* call, for an invocation that starts while no other one runs.
Start(i) ==
    /\ inv[i].pc = "idle"
    /\ \E ps \in ParamChoices :
         LET busy == \E j \in Invs : Active(inv[j])
         IN inv' = [j \in Invs |->
                      IF j = i
                      THEN [inv[i] EXCEPT !.pc = "fw", !.step = 1, !.params = ps,
                                          !.pre = IF busy THEN @ ELSE Snap,
                                          !.overlap = busy,
                                          !.order = Cardinality({k \in Invs :
                                                      inv[k].pc # "idle"}) + 1]
                      ELSE IF Active(inv[j]) THEN [inv[j] EXCEPT !.overlap = TRUE]
                      ELSE inv[j]]
    /\ UNCHANGED <<teamInUse, userInUse, store, infra, uniqueIndex>>

\* reserve-team-job forward: the validation, then reserveTeamCronjob.Forward
\* with its call TeamQuota.Inc(team, 1).
ReserveTeamFw(i) ==
    LET s == inv[i]
        t == s.params[1].team
        out == reserveTeamForward(s.params)
    IN /\ StepIs(s, "reserve-team-job")
       /\ IF ~EnoughParams("reserve-team-job", s.params)
          THEN inv' = [inv EXCEPT ![i] = FewParams(s)] /\ UNCHANGED teamInUse
          ELSE IF out.call = ""
          THEN inv' = [inv EXCEPT ![i] = ApplyFw(EnterFw(s), out)]
               /\ UNCHANGED teamInUse
          ELSE \E o \in QuotaInc(teamInUse[t], TeamLimit, 1) :
                 /\ teamInUse' = [teamInUse EXCEPT ![t] = o.v]
                 /\ inv' = [inv EXCEPT ![i] =
                              ApplyFw(Logged(EnterFw(s), "TeamQuota.Inc+1", t, o.err),
                                      reserveTeamAfterInc(s.params, o.err))]
       /\ UNCHANGED <<userInUse, store, infra, uniqueIndex>>

\* reserve-user-cronjob forward: the validation, then
\* reserveUserCronjob.Forward with its call UserQuota.Inc(user, 1).
ReserveUserFw(i) ==
    LET s == inv[i]
        e == s.params[2].email
        out == reserveUserForward(s.params)
    IN /\ StepIs(s, "reserve-user-cronjob")
       /\ IF ~EnoughParams("reserve-user-cronjob", s.params)
          THEN inv' = [inv EXCEPT ![i] = FewParams(s)] /\ UNCHANGED userInUse
          ELSE IF out.call = ""
          THEN inv' = [inv EXCEPT ![i] = ApplyFw(EnterFw(s), out)]
               /\ UNCHANGED userInUse
          ELSE \E o \in QuotaInc(userInUse[e], UserLimit, 1) :
                 /\ userInUse' = [userInUse EXCEPT ![e] = o.v]
                 /\ inv' = [inv EXCEPT ![i] =
                              ApplyFw(Logged(EnterFw(s), "UserQuota.Inc+1", e, o.err),
                                      reserveUserAfterInc(s.params, o.err))]
       /\ UNCHANGED <<teamInUse, store, infra, uniqueIndex>>

\* provision-job forward: the validation, then provisionJob.Forward with
\* getProvisioner (which reads no state of the model) and prov.EnsureJob(job).
ProvisionFw(i) ==
    LET s == inv[i]
        n == s.params[1].name
        out == provisionJobForward(s.params)
    IN /\ StepIs(s, "provision-job")
       /\ IF ~EnoughParams("provision-job", s.params)
          THEN inv' = [inv EXCEPT ![i] = FewParams(s)] /\ UNCHANGED infra
          ELSE IF out.call = ""
          THEN inv' = [inv EXCEPT ![i] = ApplyFw(EnterFw(s), out)]
               /\ UNCHANGED infra
          ELSE \E e1 \in GetProvisioner, e2 \in DriverCall :
                 LET s1 == Logged(EnterFw(s), "getProvisioner", s.params[1].pool, e1)
                     out1 == provisionJobAfterGetProv(e1)
                 IN IF out1.call = ""
                    THEN inv' = [inv EXCEPT ![i] = ApplyFw(s1, out1)]
                         /\ UNCHANGED infra
                    ELSE /\ infra' = IF e2 = NoErr THEN [infra EXCEPT ![n] = i]
                                     ELSE infra
                         /\ inv' = [inv EXCEPT ![i] =
                                      ApplyFw(Logged(s1, "EnsureJob", n, e2),
                                              provisionJobAfterEnsure(e2))]
       /\ UNCHANGED <<teamInUse, userInUse, store, uniqueIndex>>

\* insert-job forward: the validation, then insertJob.Forward and insertJobDB
\* up to the decision taken on GetByName's answer (JobsCollection() reads no
\* state of the model).  The InsertOne is a later call: InsertFw.
InsertLookupFw(i) ==
    LET s == inv[i]
        n == s.params[1].name
        out == insertJobForward(s.params)
    IN /\ StepIs(s, "insert-job")
       /\ IF ~EnoughParams("insert-job", s.params)
          THEN inv' = [inv EXCEPT ![i] = FewParams(s)]
          ELSE IF out.call = ""
          THEN inv' = [inv EXCEPT ![i] = ApplyFw(EnterFw(s), out)]
          ELSE \E e1 \in JobsCollection, e2 \in GetByName(n) :
                 LET s1 == Logged(EnterFw(s), "JobsCollection", "jobs", e1)
                     out1 == insertJobDBAfterCollection(e1)
                     out2 == insertJobDBAfterGet(e2)
                 IN inv' = [inv EXCEPT ![i] =
                      IF out1.call = ""
                      THEN ApplyFw(s1, insertJobAfterDB(s.params, out1.err))
                      ELSE IF out2.call = ""
                      THEN ApplyFw(Logged(s1, "GetByName", n, e2),
                                   insertJobAfterDB(s.params, out2.err))
                      ELSE ApplyFw(Logged(s1, "GetByName", n, e2), out2)]
       /\ UNCHANGED <<teamInUse, userInUse, store, infra, uniqueIndex>>

\* collection.InsertOne(job) in insertJobDB, and the return of insertJob.Forward.
InsertFw(i) ==
    LET s == inv[i]
        j == s.params[1]
    IN /\ s.pc = "ij_insert"
       /\ \E err \in InsertOne(j.name) :
            /\ store' = IF err = NoErr
                        THEN store \cup {[name |-> j.name, team |-> j.team, by |-> i]}
                        ELSE store
            /\ inv' = [inv EXCEPT ![i] =
                         ApplyFw(Logged(s, "InsertOne", j.name, err),
                                 insertJobAfterDB(s.params,
                                                  insertJobDBAfterInsert(err).err))]
       /\ UNCHANGED <<teamInUse, userInUse, infra, uniqueIndex>>

\* Rollback of reserve-team-job: reserveTeamCronjob.Backward on the step's own
\* forward result, with its call TeamQuota.Inc(team, -1).
ReserveTeamBw(i) ==
    LET s == inv[i]
        r == FWResultFor(s)
        t == r.m["team"]
        out == reserveTeamBackward(r)
    IN /\ UndoIs(s, "reserve-team-job")
       /\ IF out.call = ""
          THEN inv' = [inv EXCEPT ![i] = BwReturn(EnterBw(s))]
               /\ UNCHANGED teamInUse
          ELSE \E o \in QuotaInc(teamInUse[t], TeamLimit, -1) :
                 /\ teamInUse' = [teamInUse EXCEPT ![t] = o.v]
                 /\ inv' = [inv EXCEPT ![i] =
                              BwReturn(Logged(EnterBw(s), "TeamQuota.Inc-1", t, o.err))]
       /\ UNCHANGED <<userInUse, store, infra, uniqueIndex>>

\* Rollback of reserve-user-cronjob: reserveUserCronjob.Backward on the step's
\* own forward result, with auth.GetUserByEmail(email) (which reads no state of
\* the model) and UserQuota.Inc(user, -1).
ReserveUserBw(i) ==
    LET s == inv[i]
        r == FWResultFor(s)
        e == r.m["user"]
        out == reserveUserBackward(r)
    IN /\ UndoIs(s, "reserve-user-cronjob")
       /\ IF out.call = ""
          THEN inv' = [inv EXCEPT ![i] = BwReturn(EnterBw(s))]
               /\ UNCHANGED userInUse
          ELSE \E e1 \in GetUserByEmail :
                 LET s1 == Logged(EnterBw(s), "GetUserByEmail", e, e1)
                     out1 == reserveUserBackwardAfterLookup(e1)
                 IN IF out1.call = ""
                    THEN inv' = [inv EXCEPT ![i] = BwFailed(s1)]
                         /\ UNCHANGED userInUse
                    ELSE \E o \in QuotaInc(userInUse[e], UserLimit, -1) :
                           /\ userInUse' = [userInUse EXCEPT ![e] = o.v]
                           /\ inv' = [inv EXCEPT ![i] =
                                        BwReturn(Logged(s1, "UserQuota.Inc-1", e, o.err))]
       /\ UNCHANGED <<teamInUse, store, infra, uniqueIndex>>

\* Rollback of provision-job: provisionJob.Backward with getProvisioner and
\* prov.DestroyJob(job), whose error is dropped.
ProvisionBw(i) ==
    LET s == inv[i]
        n == s.params[1].name
        out == provisionJobBackward(s.params)
    IN /\ UndoIs(s, "provision-job")
       /\ IF out.call = ""
          THEN inv' = [inv EXCEPT ![i] = BwReturn(EnterBw(s))]
               /\ UNCHANGED infra
          ELSE \E e1 \in GetProvisioner, e2 \in DriverCall :
                 LET s1 == Logged(EnterBw(s), "getProvisioner", s.params[1].pool, e1)
                     out1 == provisionJobBackwardAfterGetProv(e1)
                 IN IF out1.call = ""
                    THEN inv' = [inv EXCEPT ![i] = BwFailed(s1)]
                         /\ UNCHANGED infra
                    ELSE /\ infra' = IF e2 = NoErr
                                     THEN [infra EXCEPT ![n] = NoInfra]
                                     ELSE infra
                         /\ inv' = [inv EXCEPT ![i] =
                                      IF e2 = NoErr
                                      THEN BwReturn(Logged(s1, "DestroyJob", n, e2))
                                      ELSE BwFailed(Logged(s1, "DestroyJob", n, e2))]
       /\ UNCHANGED <<teamInUse, userInUse, store, uniqueIndex>>

\* Rollback of insert-job: insertJob.Backward with RemoveJob(job).  insert-job
\* is the last step of the creation pipeline, so no creation compensates it.
InsertBw(i) ==
    LET s == inv[i]
        r == FWResultFor(s)
        out == insertJobBackward(r)
    IN /\ UndoIs(s, "insert-job")
       /\ \E err \in {NoErr, ErrStore} :
            /\ store' = IF err = NoErr
                        THEN {x \in store : x.name # r.job.name}
                        ELSE store
            /\ inv' = [inv EXCEPT ![i] =
                         IF err = NoErr
                         THEN BwReturn(Logged(EnterBw(s), "RemoveJob", r.job.name, err))
                         ELSE BwFailed(Logged(EnterBw(s), "RemoveJob", r.job.name, err))]
       /\ UNCHANGED <<teamInUse, userInUse, infra, uniqueIndex>>

Next ==
    \E i \in Invs :
        \/ Start(i)
        \/ ReserveTeamFw(i)
        \/ ReserveUserFw(i)
        \/ ProvisionFw(i)
        \/ InsertLookupFw(i)
        \/ InsertFw(i)
        \/ ProvisionBw(i)
        \/ ReserveUserBw(i)
        \/ ReserveTeamBw(i)

Spec == Init /\ [][Next]_vars

\* ------------------------------------------------- update and trigger runs
\* The record of job name n in the store.
StoredJob(n) == CHOOSE r \in store : r.name = n

\* collection.ReplaceOne({"name": name}, job): the document of the name is
\* replaced by the job's; with no document of the name nothing is written.
ReplaceOne == {NoErr, ErrStore}
Replaced(name, job) ==
    IF \E r \in store : r.name = name
    THEN {r \in store : r.name # name} \cup {Encode(job)}
    ELSE store

\* Job service UpdateJobProv(job) and driver TriggerCron(job, pool): each
\* succeeds or fails with the driver's error.
UpdateJobProv == {NoErr, ErrDriver}
TriggerCron == {NoErr, ErrDriver}

\* The jobs a caller updates: alpha with a new spec, alpha as it is stored,
\* alpha as it is stored but with its list nil, and beta, which has no record.
UpdateChoices ==
    { <<JobSpec("alpha", "p1", "v2", "empty")>>,
      <<JobSpec("alpha", "p1", "v1", "empty")>>,
      <<JobSpec("alpha", "p1", "v1", "nil")>>,
      <<JobSpec("beta", "p1", "v2", "empty")>> }

\* The jobs a caller triggers, and a call with no parameter.
TriggerChoices ==
    { <<JobSpec("alpha", "p1", "v1", "empty")>>,
      <<JobSpec("beta", "p2", "v1", "empty")>>,
      <<>> }

\* A caller invokes the pipeline of the kind with the parameters ps.
StartAs(i, kind, ps) ==
    /\ inv[i].pc = "idle"
    /\ LET busy == \E j \in Invs : Active(inv[j])
       IN inv' = [j \in Invs |->
                    IF j = i
                    THEN [inv[i] EXCEPT !.kind = kind, !.pc = "fw", !.step = 1,
                                        !.params = ps,
                                        !.pre = IF busy THEN @ ELSE Snap,
                                        !.overlap = busy,
                                        !.order = Cardinality({k \in Invs :
                                                    inv[k].pc # "idle"}) + 1]
                    ELSE IF Active(inv[j]) THEN [inv[j] EXCEPT !.overlap = TRUE]
                    ELSE inv[j]]
    /\ UNCHANGED <<teamInUse, userInUse, store, infra, uniqueIndex>>

\* In the update runs the store holds alpha at spec v1, which is the spec the
\* driver has accepted for it; there is no job beta.
UpdateInit ==
    /\ teamInUse = [t \in Teams |-> TeamLimit - 1]
    /\ userInUse = [e \in Emails |-> UserLimit - 1]
    /\ store = {Encode(JobSpec("alpha", "p1", "v1", "nil"))}
    /\ infra = [n \in Names |-> IF n = "alpha" THEN "v1" ELSE NoInfra]
    /\ uniqueIndex = TRUE
    /\ inv = [i \in Invs |-> IdleInv(Snap)]

StartUpdate(i) ==
    \E kind \in {"update", "composed"}, ps \in UpdateChoices : StartAs(i, kind, ps)

\* update-job forward: the validation, then updateJobProv.Forward with
\* UpdateJobProv(job); the driver that accepts the job keeps its spec.
UpdateProvFw(i) ==
    LET s == inv[i]
        j == s.params[1]
        out == updateJobProvForward(s.params)
    IN /\ StepIs(s, "update-job")
       /\ IF ~EnoughParams("update-job", s.params)
          THEN inv' = [inv EXCEPT ![i] = FewParams(s)] /\ UNCHANGED infra
          ELSE IF out.call = ""
          THEN inv' = [inv EXCEPT ![i] = ApplyFw(EnterFw(s), out)]
               /\ UNCHANGED infra
          ELSE \E e \in UpdateJobProv :
                 /\ infra' = IF e = NoErr THEN [infra EXCEPT ![j.name] = j.spec]
                             ELSE infra
                 /\ inv' = [inv EXCEPT ![i] =
                              ApplyFw(Logged(EnterFw(s), "UpdateJobProv", j.name, e),
                                      updateJobProvAfterUpdate(e))]
       /\ UNCHANGED <<teamInUse, userInUse, store, uniqueIndex>>

\* update-job-db forward: the validation, then jobUpdateDB.Forward with its
\* own GetByName(j.Name), up to the call updateJobDB(j).
UpdateDBFw(i) ==
    LET s == inv[i]
        j == s.params[1]
        out == jobUpdateDBForward(s.params)
    IN /\ StepIs(s, "update-job-db")
       /\ IF ~EnoughParams("update-job-db", s.params)
          THEN inv' = [inv EXCEPT ![i] = FewParams(s)]
          ELSE IF out.call = ""
          THEN inv' = [inv EXCEPT ![i] = ApplyFw(EnterFw(s), out)]
          ELSE \E e \in GetByName(j.name) :
                 LET oldJob == IF e = NoErr THEN StoredJob(j.name) ELSE NoJob
                     out1 == jobUpdateDBAfterGet(e, oldJob)
                     s1 == Logged(EnterFw(s), "GetByName", j.name, e)
                 IN inv' = [inv EXCEPT ![i] =
                      IF out1.call = ""
                      THEN ApplyFw(s1, out1)
                      ELSE [s1 EXCEPT !.pc = out1.call, !.old = out1.res,
                                      !.arg = j]]
       /\ UNCHANGED <<teamInUse, userInUse, store, infra, uniqueIndex>>

\* updateJobDB(job) has returned err to its caller: jobUpdateDB.Forward
\* returns (oldJob or nil, err); jobUpdateDB.Backward logs the error.
UpdateJobDBReturn(s, err) ==
    IF s.failedAt = 0 THEN FwReturn(s, s.old, err)
    ELSE IF err # NoErr THEN BwFailed(s)
    ELSE BwReturn(s)

\* updateJobDB(job) up to the decision taken on GetByName's answer
\* (JobsCollection() reads no state of the model).  The ReplaceOne is a later
\* call: UpdateJobDBReplace.
UpdateJobDBRead(i) ==
    LET s == inv[i]
        n == s.arg.name
    IN /\ s.pc = "udb_read"
       /\ \E e1 \in JobsCollection, e2 \in GetByName(n) :
            LET oldJob == IF e2 = NoErr THEN StoredJob(n) ELSE NoJob
                s1 == Logged(s, "updateJobDB.JobsCollection", "jobs", e1)
                s2 == Logged(s1, "updateJobDB.GetByName", n, e2)
                out1 == updateJobDBAfterCollection(e1)
                out2 == updateJobDBAfterGet(e2, oldJob, s.arg)
            IN inv' = [inv EXCEPT ![i] =
                 IF out1.call = "" THEN UpdateJobDBReturn(s1, out1.err)
                 ELSE IF out2.call = "" THEN UpdateJobDBReturn(s2, out2.err)
                 ELSE [s2 EXCEPT !.pc = out2.call]]
       /\ UNCHANGED <<teamInUse, userInUse, store, infra, uniqueIndex>>

\* collection.ReplaceOne in updateJobDB, and the return of updateJobDB.
UpdateJobDBReplace(i) ==
    LET s == inv[i]
        n == s.arg.name
    IN /\ s.pc = "udb_replace"
       /\ \E err \in ReplaceOne :
            /\ store' = IF err = NoErr THEN Replaced(n, s.arg) ELSE store
            /\ inv' = [inv EXCEPT ![i] =
                         UpdateJobDBReturn(Logged(s, "updateJobDB.ReplaceOne", n, err),
                                           updateJobDBAfterReplace(err).err)]
       /\ UNCHANGED <<teamInUse, userInUse, infra, uniqueIndex>>

\* Rollback of update-job-db: jobUpdateDB.Backward on the step's own forward
\* result, up to the call updateJobDB(oldJob).
UpdateDBBw(i) ==
    LET s == inv[i]
        r == FWResultFor(s)
        out == jobUpdateDBBackward(r)
    IN /\ UndoIs(s, "update-job-db")
       /\ inv' = [inv EXCEPT ![i] =
                    IF out.call = "" THEN BwReturn(EnterBw(s))
                    ELSE [EnterBw(s) EXCEPT !.pc = out.call, !.arg = r.job]]
       /\ UNCHANGED <<teamInUse, userInUse, store, infra, uniqueIndex>>

\* Rollback over an action that defines no Backward: the executor passes on.
SkipBw(i) ==
    LET s == inv[i]
    IN /\ s.pc = "bw"
       /\ ~HasBackward(Pipeline(s.kind)[s.bwIdx])
       /\ inv' = [inv EXCEPT ![i] = BwReturn(s)]
       /\ UNCHANGED <<teamInUse, userInUse, store, infra, uniqueIndex>>

UpdateNext ==
    \E i \in Invs :
        \/ StartUpdate(i)
        \/ UpdateProvFw(i)
        \/ UpdateDBFw(i)
        \/ UpdateJobDBRead(i)
        \/ UpdateJobDBReplace(i)
        \/ UpdateDBBw(i)
        \/ SkipBw(i)

UpdateSpec == UpdateInit /\ [][UpdateNext]_vars

\* In the trigger runs the orchestrator counts the runs it started per job.
TriggerInit ==
    /\ teamInUse = [t \in Teams |-> TeamLimit - 1]
    /\ userInUse = [e \in Emails |-> UserLimit - 1]
    /\ store = {Encode(JobSpec("alpha", "p1", "v1", "nil")),
                Encode(JobSpec("beta", "p2", "v1", "nil"))}
    /\ infra = [n \in Names |-> 0]
    /\ uniqueIndex = TRUE
    /\ inv = [i \in Invs |-> IdleInv(Snap)]

StartTrigger(i) == \E ps \in TriggerChoices : StartAs(i, "trigger", ps)

\* trigger-cronjob forward: the validation, then triggerCron.Forward with
\* getProvisioner and prov.TriggerCron(job, job.Pool).
TriggerFw(i) ==
    LET s == inv[i]
        j == s.params[1]
        out == triggerCronForward(s.params)
    IN /\ StepIs(s, "trigger-cronjob")
       /\ IF ~EnoughParams("trigger-cronjob", s.params)
          THEN inv' = [inv EXCEPT ![i] = FewParams(s)] /\ UNCHANGED infra
          ELSE IF out.call = ""
          THEN inv' = [inv EXCEPT ![i] = ApplyFw(EnterFw(s), out)]
               /\ UNCHANGED infra
          ELSE \E e1 \in GetProvisioner, e2 \in TriggerCron :
                 LET s1 == Logged(EnterFw(s), "getProvisioner", j.pool, e1)
                     out1 == triggerCronAfterGetProv(e1)
                 IN IF out1.call = ""
                    THEN inv' = [inv EXCEPT ![i] = ApplyFw(s1, out1)]
                         /\ UNCHANGED infra
                    ELSE /\ infra' = IF e2 = NoErr
                                     THEN [infra EXCEPT ![j.name] = @ + 1]
                                     ELSE infra
                         /\ inv' = [inv EXCEPT ![i] =
                                      ApplyFw(Logged(s1, "TriggerCron",
                                                     [job |-> j, pool |-> j.pool], e2),
                                              triggerCronAfterTrigger(e2))]
       /\ UNCHANGED <<teamInUse, userInUse, store, uniqueIndex>>

TriggerNext ==
    \E i \in Invs :
        \/ StartTrigger(i)
        \/ TriggerFw(i)

TriggerSpec == TriggerInit /\ [][TriggerNext]_vars

\* ------------------------------------------------ creation under cancellation
\* Every call of an action hands the invocation's context, ctx.Context, to its
\* collaborator, in the forward and in the backward functions alike.  The
\* caller cancels it while a forward call is blocked: that call returns the
\* context's error and has changed nothing.  A collaborator called with a
\* context that is already cancelled either fails with the context's error, or
\* does not look at the context and goes on (the steps of the creation runs).
CancelInit == Init

\* One creation with a context its caller may cancel:
\* pipeline.Execute(ctx, params...).
CancelStart(i) ==
    /\ \A j \in Invs : inv[j].pc = "idle"
    /\ Start(i)

\* The call a forward function is blocked in when the context is cancelled:
\* the ledger's Inc, the orchestrator's EnsureJob, the store's GetByName.
BlockedCall(a, params) ==
    CASE a = "reserve-team-job" -> <<"TeamQuota.Inc+1", params[1].team>>
      [] a = "reserve-user-cronjob" -> <<"UserQuota.Inc+1", params[2].email>>
      [] a = "provision-job" -> <<"EnsureJob", params[1].name>>
      [] a = "insert-job" -> <<"GetByName", params[1].name>>

\* What the forward function returns when that call returns err.
AfterBlockedCall(a, params, err) ==
    CASE a = "reserve-team-job" -> reserveTeamAfterInc(params, err)
      [] a = "reserve-user-cronjob" -> reserveUserAfterInc(params, err)
      [] a = "provision-job" -> provisionJobAfterEnsure(err)
      [] a = "insert-job" -> insertJobAfterDB(params, insertJobDBAfterGet(err).err)

\* The context is cancelled while the forward of the current step is blocked in
\* its call.
CancelFw(i) ==
    LET s == inv[i]
        a == Pipeline(s.kind)[s.step]
        c == BlockedCall(a, s.params)
    IN /\ s.pc = "fw" /\ s.ctx = "live"
       /\ EnoughParams(a, s.params)
       /\ ForwardOf(a, s.params).call # ""
       /\ inv' = [inv EXCEPT ![i] =
                    ApplyFw(Logged(EnterFw([s EXCEPT !.ctx = "canceled"]),
                                   c[1], c[2], ErrCanceled),
                            AfterBlockedCall(a, s.params, ErrCanceled))]
       /\ UNCHANGED <<teamInUse, userInUse, store, infra, uniqueIndex>>

\* The context is cancelled while insertJobDB is blocked in InsertOne.
CancelInsert(i) ==
    LET s == inv[i]
    IN /\ s.pc = "ij_insert" /\ s.ctx = "live"
       /\ inv' = [inv EXCEPT ![i] =
                    ApplyFw(Logged([s EXCEPT !.ctx = "canceled"],
                                   "InsertOne", s.params[1].name, ErrCanceled),
                            insertJobAfterDB(s.params,
                                             insertJobDBAfterInsert(ErrCanceled).err))]
       /\ UNCHANGED <<teamInUse, userInUse, store, infra, uniqueIndex>>

\* reserveTeamCronjob.Backward whose TeamQuota.Inc(ctx.Context, team, -1) fails
\* on the cancelled context: the error is dropped.
ReserveTeamBwCanceled(i) ==
    LET s == inv[i]
        r == FWResultFor(s)
    IN /\ UndoIs(s, "reserve-team-job") /\ s.ctx = "canceled"
       /\ reserveTeamBackward(r).call # ""
       /\ inv' = [inv EXCEPT ![i] =
                    BwReturn(Logged(EnterBw(s), "TeamQuota.Inc-1", r.m["team"],
                                    ErrCanceled))]
       /\ UNCHANGED <<teamInUse, userInUse, store, infra, uniqueIndex>>

\* reserveUserCronjob.Backward whose auth.GetUserByEmail(ctx.Context, email)
\* fails on the cancelled context: no Inc(-1) is made.
ReserveUserBwCanceled(i) ==
    LET s == inv[i]
        r == FWResultFor(s)
    IN /\ UndoIs(s, "reserve-user-cronjob") /\ s.ctx = "canceled"
       /\ reserveUserBackward(r).call # ""
       /\ reserveUserBackwardAfterLookup(ErrCanceled).call = ""
       /\ inv' = [inv EXCEPT ![i] =
                    BwFailed(Logged(EnterBw(s), "GetUserByEmail", r.m["user"],
                                    ErrCanceled))]
       /\ UNCHANGED <<teamInUse, userInUse, store, infra, uniqueIndex>>

\* provisionJob.Backward whose getProvisioner(ctx.Context, job) fails on the
\* cancelled context: no DestroyJob is made.
ProvisionBwCanceled(i) ==
    LET s == inv[i]
    IN /\ UndoIs(s, "provision-job") /\ s.ctx = "canceled"
       /\ provisionJobBackward(s.params).call # ""
       /\ provisionJobBackwardAfterGetProv(ErrCanceled).call = ""
       /\ inv' = [inv EXCEPT ![i] =
                    BwFailed(Logged(EnterBw(s), "getProvisioner", s.params[1].pool,
                                    ErrCanceled))]
       /\ UNCHANGED <<teamInUse, userInUse, store, infra, uniqueIndex>>

CancelNext ==
    \E i \in Invs :
        \/ CancelStart(i)
        \/ ReserveTeamFw(i)
        \/ ReserveUserFw(i)
        \/ ProvisionFw(i)
        \/ InsertLookupFw(i)
        \/ InsertFw(i)
        \/ CancelFw(i)
        \/ CancelInsert(i)
        \/ ProvisionBw(i)
        \/ ReserveUserBw(i)
        \/ ReserveTeamBw(i)
        \/ ProvisionBwCanceled(i)
        \/ ReserveUserBwCanceled(i)
        \/ ReserveTeamBwCanceled(i)

CancelSpec == CancelInit /\ [][CancelNext]_vars

\* ------------------------------------------- kubernetes: waitFor, waitForPod
\* The errors of the waits, each as the parts of its message that ": "
\* separates; the nil error has none.
NilErr == <<>>
ErrMyErr == <<"myerr">>
ErrMyError == <<"my error">>
ErrDeadlineExceeded == <<"context deadline exceeded">>
ErrPodNotFound == <<"pods \"pod1\" not found">>
ErrPodStatus == <<"pod status">>
InvalidPodPhase(phase) == <<"invalid pod phase", phase>>

\* %v of an error value: a nil error prints as <nil>.
FormatErr(e) == IF e = NilErr THEN <<"<nil>">> ELSE e

\* The error of a wait that was cancelled: "canceled after <elapsed>", then
\* what onCancel returned when one was given, then the context's error.
CanceledAfter(onCancel, res, ctxErr) ==
    IF onCancel = "none" THEN <<"canceled after">> \o ctxErr
    ELSE <<"canceled after">> \o FormatErr(res) \o ctxErr

\* The pods of the cluster and their phases.
Pods == {"pod1"}
Phases == {"Pending", "Running", "Succeeded", "Failed", "Unknown"}
NoPod == "absent"

\* The functions TestWaitFor polls, as the results a call of each may give:
\* done at once, never done, done with an error; and two that change over
\* time, done later and failing later.
FnResults(fn) ==
    CASE fn = "done" -> {<<TRUE, NilErr>>}
      [] fn = "never" -> {<<FALSE, NilErr>>}
      [] fn = "doneWithError" -> {<<TRUE, ErrMyErr>>}
      [] fn = "doneLater" -> {<<FALSE, NilErr>>, <<TRUE, NilErr>>}
      [] fn = "failsLater" -> {<<FALSE, NilErr>>, <<FALSE, ErrMyErr>>}
Fns == {"done", "never", "doneWithError", "doneLater", "failsLater"}

\* The onCancel functions TestWaitFor passes (nil, one returning nil, one
\* returning "my error") and the one of waitForPod, as what each returns.
OnCancelResult(onCancel) ==
    CASE onCancel = "none" -> NilErr
      [] onCancel = "nil" -> NilErr
      [] onCancel = "my error" -> ErrMyError
      [] onCancel = "podStatus" -> ErrPodStatus
OnCancels == {"none", "nil", "my error"}

\* podPhaseFn that takes a running pod for done whatever the caller asked.
podPhaseFnRunningIsDone(phase, running) ==
    IF phase = NoPod THEN <<TRUE, ErrPodNotFound>>
    ELSE IF phase = "Pending" THEN <<FALSE, NilErr>>
    ELSE IF phase \in {"Failed", "Unknown"} THEN <<TRUE, InvalidPodPhase(phase)>>
    ELSE <<TRUE, NilErr>>

\* The function waitForPod polls: it reads the pod and decides on its phase.
podPhaseFn(phase, running) ==
    IF phase = NoPod THEN <<TRUE, ErrPodNotFound>>
    ELSE IF phase = "Pending" THEN <<FALSE, NilErr>>
    ELSE IF phase = "Running" THEN <<running, NilErr>>
    ELSE IF phase \in {"Failed", "Unknown"} THEN <<TRUE, InvalidPodPhase(phase)>>
    ELSE <<TRUE, NilErr>>

\* waitFor that looks at done before it looks at the error.
waitForAfterFnDoneFirst(s, done, err) ==
    IF done THEN [s EXCEPT !.last = <<done, err>>, !.ret = NilErr, !.pc = "done"]
    ELSE IF err # NilErr
    THEN [s EXCEPT !.last = <<done, err>>, !.ret = err, !.pc = "done"]
    ELSE [s EXCEPT !.last = <<done, err>>, !.pc = "select"]

\* waitFor after fn returned (done, err): an error ends the wait with it, done
\* ends it with nil, otherwise it waits for the next tick or for the context.
waitForAfterFn(s, done, err) ==
    IF err # NilErr
    THEN [s EXCEPT !.last = <<done, err>>, !.ret = err, !.pc = "done"]
    ELSE IF done
    THEN [s EXCEPT !.last = <<done, err>>, !.ret = NilErr, !.pc = "done"]
    ELSE [s EXCEPT !.last = <<done, err>>, !.pc = "select"]

\* waitFor on a context that is done: it calls onCancel when one was given
\* and returns the cancellation error.
waitForOnDone(s) ==
    [s EXCEPT !.called = s.onCancel # "none",
              !.ret = CanceledAfter(s.onCancel, OnCancelResult(s.onCancel), s.ctxErr),
              !.pc = "done"]

\* A wait that has not been called.
IdleWait ==
    [kind |-> "waitFor", pc |-> "idle", fn |-> "", onCancel |-> "none",
     pod |-> "", running |-> FALSE, ctxErr |-> NilErr, called |-> FALSE,
     last |-> <<>>, seen |-> "", ret |-> NilErr]

\* No job is created in these runs; the orchestrator holds the phase of pod1.
WaitInit ==
    /\ teamInUse = [t \in Teams |-> 0]
    /\ userInUse = [e \in Emails |-> 0]
    /\ store = {}
    /\ uniqueIndex = TRUE
    /\ infra \in [Pods -> Phases \cup {NoPod}]
    /\ inv = [i \in Invs |-> IdleWait]

\* waitFor(ctx, fn, onCancel) is called with a context that has a deadline.
WaitForCall(i) ==
    /\ inv[i].pc = "idle"
    /\ \E fn \in Fns, oc \in OnCancels :
         inv' = [inv EXCEPT ![i] = [@ EXCEPT !.kind = "waitFor", !.pc = "poll",
                                              !.fn = fn, !.onCancel = oc]]
    /\ UNCHANGED <<teamInUse, userInUse, store, infra, uniqueIndex>>

\* waitForPod(ctx, client, pod, ns, running) is called: it is a waitFor on the
\* pod's phase.
WaitForPodCall(i) ==
    /\ inv[i].pc = "idle"
    /\ \E pod \in Pods, running \in BOOLEAN :
         inv' = [inv EXCEPT ![i] = [@ EXCEPT !.kind = "waitForPod", !.pc = "poll",
                                              !.pod = pod, !.running = running,
                                              !.onCancel = "podStatus"]]
    /\ UNCHANGED <<teamInUse, userInUse, store, infra, uniqueIndex>>

\* The wait calls fn and acts on what it returns.
Poll(i) ==
    LET s == inv[i]
    IN /\ s.pc = "poll" /\ s.kind = "waitFor"
       /\ \E r \in FnResults(s.fn) :
            inv' = [inv EXCEPT ![i] = waitForAfterFn(s, r[1], r[2])]
       /\ UNCHANGED <<teamInUse, userInUse, store, infra, uniqueIndex>>

\* The wait of waitForPod reads the pod and acts on its phase.
PollPod(i) ==
    LET s == inv[i]
        r == podPhaseFn(infra[s.pod], s.running)
    IN /\ s.pc = "poll" /\ s.kind = "waitForPod"
       /\ inv' = [inv EXCEPT ![i] =
                    waitForAfterFn([s EXCEPT !.seen = infra[s.pod]], r[1], r[2])]
       /\ UNCHANGED <<teamInUse, userInUse, store, infra, uniqueIndex>>

\* The tick of the wait: fn is called again.
Tick(i) ==
    /\ inv[i].pc = "select"
    /\ inv' = [inv EXCEPT ![i] = [@ EXCEPT !.pc = "poll"]]
    /\ UNCHANGED <<teamInUse, userInUse, store, infra, uniqueIndex>>

\* The deadline of the call's context passes.
DeadlineExceeded(i) ==
    /\ inv[i].pc \in {"poll", "select"} /\ inv[i].ctxErr = NilErr
    /\ inv' = [inv EXCEPT ![i] = [@ EXCEPT !.ctxErr = ErrDeadlineExceeded]]
    /\ UNCHANGED <<teamInUse, userInUse, store, infra, uniqueIndex>>

\* The wait finds its context done.
OnDone(i) ==
    /\ inv[i].pc = "select" /\ inv[i].ctxErr # NilErr
    /\ inv' = [inv EXCEPT ![i] = waitForOnDone(inv[i])]
    /\ UNCHANGED <<teamInUse, userInUse, store, infra, uniqueIndex>>

\* The cluster moves a pod on: a pending pod runs, a running pod succeeds or
\* fails.
PodPhaseChange(p) ==
    /\ \E ph \in Phases :
         /\ \/ infra[p] = "Pending" /\ ph = "Running"
            \/ infra[p] = "Running" /\ ph \in {"Succeeded", "Failed"}
         /\ infra' = [infra EXCEPT ![p] = ph]
    /\ UNCHANGED <<inv, teamInUse, userInUse, store, uniqueIndex>>

WaitNext ==
    \/ \E i \in Invs :
        \/ WaitForCall(i)
        \/ WaitForPodCall(i)
        \/ Poll(i)
        \/ PollPod(i)
        \/ Tick(i)
        \/ DeadlineExceeded(i)
        \/ OnDone(i)
    \/ \E p \in Pods : PodPhaseChange(p)

WaitSpec == WaitInit /\ [][WaitNext]_vars

\* fn returns, the timer of the context fires, and a select that finds the
\* context done again and again takes that case in the end.
WaitFairness ==
    \A i \in Invs :
        /\ WF_vars(Poll(i)) /\ WF_vars(PollPod(i))
        /\ WF_vars(DeadlineExceeded(i))
        /\ SF_vars(OnDone(i))

WaitFairSpec == WaitSpec /\ WaitFairness

\* ----------------------------------------------- db/storagev2: the store handle
\* The calls each goroutine makes of database() and Reset().
MaxCalls == 2

\* A nil pointer; a client is named by the call of connect() that made it.
NoClient == <<>>
NoName == "nil"
DefaultDatabaseName == "tsuru"
ErrConnect == "failed to connect or ping mongodb"
ErrIndexes == "failed to create indexes"

\* atomic.Pointer.CompareAndSwap that stores whatever the pointer holds.
CompareAndSwapAlways(cur, old, new) == [swapped |-> TRUE, value |-> new]

\* atomic.Pointer.CompareAndSwap(old, new) on a pointer holding cur.
CompareAndSwap(cur, old, new) ==
    IF cur = old THEN [swapped |-> TRUE, value |-> new]
    ELSE [swapped |-> FALSE, value |-> cur]

\* database() that connects only when both pointers were nil.
databaseAfterLoadBothNil(s) ==
    IF s.connectedClient = NoClient /\ s.databaseName = NoName
    THEN [s EXCEPT !.pc = "connect"]
    ELSE [s EXCEPT !.pc = "done", !.ret = s.connectedClient, !.err = NoErr]

\* database() after its two loads: connect() if either pointer was nil,
\* otherwise return the loaded client's database.
databaseAfterLoad(s) ==
    IF s.connectedClient = NoClient \/ s.databaseName = NoName
    THEN [s EXCEPT !.pc = "connect"]
    ELSE [s EXCEPT !.pc = "done", !.ret = s.connectedClient, !.err = NoErr]

\* connect() after mongo.Connect and Ping: an error is returned, otherwise the
\* new client goes to the compare-and-swap.
connectAfterPing(s, err) ==
    IF err # NoErr THEN [s EXCEPT !.pc = "done", !.err = err]
    ELSE [s EXCEPT !.pc = "cas", !.connectedClient = <<s.self, s.n>>,
                   !.databaseName = DefaultDatabaseName]

\* connect() after databaseNamePtr.Store: index creation only if swapped,
\* otherwise the caller's own client is returned.
connectAfterStore(s) ==
    IF s.swapped THEN [s EXCEPT !.pc = "indexes"]
    ELSE [s EXCEPT !.pc = "done", !.ret = s.connectedClient, !.err = NoErr]

\* connect() after EnsureIndexesCreated returned err.
connectAfterIndexes(s, err) ==
    IF err # NoErr THEN [s EXCEPT !.pc = "done", !.err = ErrIndexes]
    ELSE [s EXCEPT !.pc = "done", !.ret = s.connectedClient, !.err = NoErr]

\* A goroutine that has called nothing yet.
IdleCaller(i) ==
    [self |-> i, kind |-> "database", pc |-> "idle", n |-> 0,
     connectedClient |-> NoClient, databaseName |-> NoName, swapped |-> FALSE,
     loaded |-> <<NoClient, NoName>>, ret |-> NoClient, err |-> NoErr,
     start |-> [connected |-> FALSE, fresh |-> FALSE], disturbed |-> FALSE]

\* The package starts with both pointers nil; the database has no index; no
\* index creation has run, no client was installed and Reset was not called.
\* connected: a connect() has returned without error, and no store of Reset()
\* was made during its call or since; fresh: a Reset() has returned and no database() was called
\* since.
StorageInit ==
    /\ teamInUse = [t \in Teams |-> 0]
    /\ userInUse = [e \in Emails |-> 0]
    /\ store = [client |-> NoClient, databaseNamePtr |-> NoName]
    /\ uniqueIndex = FALSE
    /\ infra = [ensured |-> <<>>, installed |-> <<>>, resets |-> 0,
                connected |-> FALSE, fresh |-> FALSE]
    /\ inv = [i \in Invs |-> IdleCaller(i)]

\* A goroutine calls database() (Collection(name) starts with it).
DatabaseCall(i) ==
    /\ inv[i].pc \in {"idle", "done"} /\ inv[i].n < MaxCalls
    /\ inv' = [inv EXCEPT ![i] =
                 [IdleCaller(i) EXCEPT !.pc = "load_client", !.n = inv[i].n + 1,
                                       !.start = [connected |-> infra.connected,
                                                  fresh |-> infra.fresh]]]
    /\ infra' = [infra EXCEPT !.fresh = FALSE]
    /\ UNCHANGED <<teamInUse, userInUse, store, uniqueIndex>>

\* connectedClient := client.Load()
LoadClient(i) ==
    /\ inv[i].pc = "load_client"
    /\ inv' = [inv EXCEPT ![i] = [@ EXCEPT !.connectedClient = store.client,
                                           !.pc = "load_name"]]
    /\ UNCHANGED <<teamInUse, userInUse, store, infra, uniqueIndex>>

\* databaseName := databaseNamePtr.Load(), and the test of the two.
LoadName(i) ==
    /\ inv[i].pc = "load_name"
    /\ inv' = [inv EXCEPT ![i] =
                 databaseAfterLoad([@ EXCEPT !.databaseName = store.databaseNamePtr,
                                             !.loaded = <<inv[i].connectedClient,
                                                          store.databaseNamePtr>>])]
    /\ UNCHANGED <<teamInUse, userInUse, store, infra, uniqueIndex>>

\* connect(): mongo.Connect and Ping, which make a new client or fail.
Connect(i) ==
    /\ inv[i].pc = "connect"
    /\ \E err \in {NoErr, ErrConnect} :
         inv' = [inv EXCEPT ![i] = connectAfterPing(@, err)]
    /\ UNCHANGED <<teamInUse, userInUse, store, infra, uniqueIndex>>

\* swapped := client.CompareAndSwap(nil, connectedClient)
Swap(i) ==
    LET s == inv[i]
        r == CompareAndSwap(store.client, NoClient, s.connectedClient)
    IN /\ s.pc = "cas"
       /\ store' = [store EXCEPT !.client = r.value]
       /\ infra' = [infra EXCEPT !.installed =
                      IF r.swapped THEN Append(@, s.connectedClient) ELSE @]
       /\ inv' = [inv EXCEPT ![i] = [@ EXCEPT !.swapped = r.swapped,
                                              !.pc = "store_name"]]
       /\ UNCHANGED <<teamInUse, userInUse, uniqueIndex>>

\* databaseNamePtr.Store(&databaseName), and the test of swapped.
StoreName(i) ==
    /\ inv[i].pc = "store_name"
    /\ store' = [store EXCEPT !.databaseNamePtr = inv[i].databaseName]
    /\ inv' = [inv EXCEPT ![i] = connectAfterStore(@)]
    /\ infra' = [infra EXCEPT !.connected = @ \/ (inv'[i].pc = "done" /\ ~inv[i].disturbed)]
    /\ UNCHANGED <<teamInUse, userInUse, uniqueIndex>>

\* EnsureIndexesCreated(connectedClient.Database(databaseName)), which creates
\* the indexes or fails.
EnsureIndexes(i) ==
    /\ inv[i].pc = "indexes"
    /\ \E err \in {NoErr, ErrStore} :
         /\ uniqueIndex' = (uniqueIndex \/ err = NoErr)
         /\ infra' = [infra EXCEPT !.ensured =
                                      Append(@, <<inv[i].connectedClient, err>>),
                                    !.connected =
                                      @ \/ (err = NoErr /\ ~inv[i].disturbed)]
         /\ inv' = [inv EXCEPT ![i] = connectAfterIndexes(@, err)]
    /\ UNCHANGED <<teamInUse, userInUse, store>>

\* The goroutines as a store of Reset() leaves them: every database() under
\* way has had a Reset() at work during it.
Disturbed ==
    [j \in Invs |->
       IF inv[j].kind = "database" /\ inv[j].pc \notin {"idle", "done"}
       THEN [inv[j] EXCEPT !.disturbed = TRUE] ELSE inv[j]]

\* A goroutine calls Reset(): client.Store(nil).
ResetClient(i) ==
    /\ inv[i].pc \in {"idle", "done"} /\ inv[i].n < MaxCalls
    /\ store' = [store EXCEPT !.client = NoClient]
    /\ infra' = [infra EXCEPT !.resets = @ + 1, !.connected = FALSE]
    /\ inv' = [Disturbed EXCEPT ![i] = [IdleCaller(i) EXCEPT !.kind = "Reset",
                                                              !.pc = "reset_name",
                                                              !.n = inv[i].n + 1]]
    /\ UNCHANGED <<teamInUse, userInUse, uniqueIndex>>

\* Reset(): databaseNamePtr.Store(nil).
ResetName(i) ==
    /\ inv[i].pc = "reset_name"
    /\ store' = [store EXCEPT !.databaseNamePtr = NoName]
    /\ inv' = [Disturbed EXCEPT ![i] = [inv[i] EXCEPT !.pc = "done"]]
    /\ infra' = [infra EXCEPT !.connected = FALSE, !.fresh = TRUE]
    /\ UNCHANGED <<teamInUse, userInUse, uniqueIndex>>

StorageNext ==
    \E i \in Invs :
        \/ DatabaseCall(i)
        \/ LoadClient(i)
        \/ LoadName(i)
        \/ Connect(i)
        \/ Swap(i)
        \/ StoreName(i)
        \/ EnsureIndexes(i)
        \/ ResetClient(i)
        \/ ResetName(i)

StorageSpec == StorageInit /\ [][StorageNext]_vars

\* ------------------------------------------- forwards on ill-typed parameters
\* ctx.Params is a list of interface{} values: nothing keeps a caller from
\* handing an Action a first parameter that is no *Job, or a second one that
\* is no user.  Each job Action is run alone, as a pipeline of one step.
\*
\* First parameters: a *Job, a Job by value, and a value of another type with
\* fields of the same names.
AJob == JobSpec("alpha", "p1", "v2", "empty")
FirstParams ==
    { AJob, [AJob EXCEPT !.type = "jobvalue"], [AJob EXCEPT !.type = "app"] }

\* Second parameters: a user by value, a user by pointer, a user that
\* authenticated with a token, a string, and the job once more.
SecondParams ==
    { User("u1", FALSE), UserPtr("u1", FALSE), UserPtr("tok", TRUE),
      [type |-> "string"], AJob }

TypedChoices ==
    {<<f>> : f \in FirstParams} \cup {<<f, u>> : f \in FirstParams, u \in SecondParams}

\* The Actions whose collaborators are those of the update runs.
UpdateActions == {"update-job", "update-job-db"}

\* Both invocations run the same Action; the ledger, the store and the
\* orchestrator start as they do in the runs of the Action's own pipeline.
ParamInit ==
    \E a \in JobActions :
        /\ teamInUse = [t \in Teams |-> TeamLimit - 1]
        /\ userInUse = [e \in Emails |-> UserLimit - 1]
        /\ store = IF a \in UpdateActions \cup {"trigger-cronjob"}
                   THEN {Encode(JobSpec("alpha", "p1", "v1", "nil"))}
                   ELSE {}
        /\ infra = [n \in Names |->
                      IF a = "trigger-cronjob" THEN 0
                      ELSE IF a \in UpdateActions /\ n = "alpha" THEN "v1"
                      ELSE NoInfra]
        /\ uniqueIndex = TRUE
        /\ inv = [i \in Invs |-> [IdleInv(Snap) EXCEPT !.kind = a]]

\* A caller executes the Action of the invocation on a parameter list.
StartTyped(i) == \E ps \in TypedChoices : StartAs(i, inv[i].kind, ps)

ParamNext ==
    \E i \in Invs :
        \/ StartTyped(i)
        \/ ReserveTeamFw(i)
        \/ ReserveUserFw(i)
        \/ ProvisionFw(i)
        \/ InsertLookupFw(i)
        \/ InsertFw(i)
        \/ UpdateProvFw(i)
        \/ UpdateDBFw(i)
        \/ UpdateJobDBRead(i)
        \/ UpdateJobDBReplace(i)
        \/ TriggerFw(i)

ParamSpec == ParamInit /\ [][ParamNext]_vars

\* ------------------------------------------------- creation runs to the end
\* The counters start one below their ceilings, and the store has its unique
\* index: the second reservation of a team or of a user is denied.
TermInit ==
    /\ Init
    /\ teamInUse = [t \in Teams |-> TeamLimit - 1]
    /\ uniqueIndex = TRUE

\* The step the executor takes next for the invocation: the forward or the
\* backward call of its current Action, up to the return of that call.
ExecutorStep(i) ==
    \/ ReserveTeamFw(i)
    \/ ReserveUserFw(i)
    \/ ProvisionFw(i)
    \/ InsertLookupFw(i)
    \/ InsertFw(i)
    \/ ProvisionBw(i)
    \/ ReserveUserBw(i)
    \/ ReserveTeamBw(i)

\* Execute runs on the goroutine of its caller, which the scheduler does not
\* starve, and every forward and backward call returns: the step an
\* invocation can take is taken.  Nothing makes a caller start an invocation.
TermFairness == \A i \in Invs : WF_vars(ExecutorStep(i))

TermSpec == TermInit /\ [][Next]_vars /\ TermFairness

\* ================================================================= claims
Done(s) == s.pc = "done"
Succeeded(s) == s.pc = "done" /\ s.err = NoErr
Failed(s) == s.pc = "done" /\ s.err # NoErr
Started(s) == s.pc # "idle"
WithUser(s) == Len(s.params) = 2

\* Invocation i has called op (with any argument and outcome).
Called(s, op) == \E p \in 1..Len(s.calls) : s.calls[p][1] = op
CalledOk(s, op, arg) == \E p \in 1..Len(s.calls) : s.calls[p] = <<op, arg, NoErr>>
CallFailed(s, op) ==
    \E p \in 1..Len(s.calls) : s.calls[p][1] = op /\ s.calls[p][3] # NoErr

\* The compensation of s could not release the user's reservation (the
\* directory lookup failed), or could not destroy the infrastructure
\* (getProvisioner or DestroyJob failed in provisionJob.Backward).
ReleaseFailed(s) == CallFailed(s, "GetUserByEmail")
DestroyFailed(s) ==
    \/ CallFailed(s, "DestroyJob")
    \/ \E p \in 1..Len(s.calls) :
         /\ s.calls[p][1] = "getProvisioner" /\ s.calls[p][3] # NoErr
         /\ s.failedAt > 3

\* No other invocation was running at any time between i's call and now: the
\* others are idle, or had returned before i was called.
RanAlone(i) ==
    /\ ~inv[i].overlap
    /\ \A j \in Invs \ {i} : inv[j].pc = "idle" \/ inv[j].order < inv[i].order

\* A record of job name n was in the store when i was called.
ExistedBefore(i) == \E r \in inv[i].pre.store : r.name = inv[i].params[1].name

\* The counters of the ledger equal their values at i's call.
QuotaAsBefore(i) ==
    teamInUse = inv[i].pre.team /\ userInUse = inv[i].pre.user

\* C1: if the forward of step k fails, the backwards of steps k-1, ..., 1 are
\* invoked once each in exactly that order (the log of backward invocations is
\* at every moment a prefix of k-1, k-2, ..., 1 and is all of it when the run
\* has returned), and the backward of step k or of a later step is never
\* invoked; a run in which no forward failed invokes no backward.
C1_ReverseOrderCompensation ==
    \A i \in Invs :
        LET s == inv[i]
        IN /\ s.failedAt = 0 => s.bwLog = <<>>
           /\ s.failedAt > 0 =>
                /\ Len(s.bwLog) <= s.failedAt - 1
                /\ \A p \in 1..Len(s.bwLog) : s.bwLog[p] = s.failedAt - p
                /\ Done(s) => Len(s.bwLog) = s.failedAt - 1

C1_Witness ==
    \E i \in Invs :
        Done(inv[i]) /\ inv[i].failedAt = 4 /\ inv[i].bwLog = <<3, 2, 1>>

\* C2: a backward call that fails leaves the error returned to the caller the
\* error of the failing forward, and the backwards of the remaining earlier
\* steps still run.
C2_BackwardFailureIsContained ==
    \A i \in Invs :
        LET s == inv[i]
        IN s.bwFailed =>
             /\ s.err = s.fwErr
             /\ s.err # NoErr
             /\ ~Done(s) => s.pc = "bw"
             /\ Done(s) => s.bwLog = [p \in 1..(s.failedAt - 1) |-> s.failedAt - p]

\* The directory lookup of the user step's backward failed (no decrement was
\* made), the team step's backward ran after it, and the caller got the
\* already-exists error of the persist step.
C2_Witness ==
    \E i \in Invs :
        LET s == inv[i]
        IN /\ Done(s) /\ s.bwFailed
           /\ s.err = ErrJobAlreadyExists
           /\ \E p \in 1..Len(s.calls) :
                /\ s.calls[p] = <<"GetUserByEmail", "u1", ErrUserNotFound>>
                /\ p < Len(s.calls)
                /\ s.calls[p + 1] = <<"TeamQuota.Inc-1", "t1", NoErr>>
           /\ ~Called(s, "UserQuota.Inc-1")

\* The outcome of a creation that succeeded: its record is in the store, its
\* infrastructure is ensured, and the team counter (the user counter, for a
\* user that is not token-derived) is one above its value at the call.
FullSuccess(i) ==
    LET s == inv[i]
        j == s.params[1]
        u == s.params[2]
    IN /\ s.err = NoErr
       /\ [name |-> j.name, team |-> j.team, by |-> i] \in store
       /\ infra[j.name] = i
       /\ teamInUse = [s.pre.team EXCEPT ![j.team] = @ + 1]
       /\ userInUse = IF u.fromToken THEN s.pre.user
                      ELSE [s.pre.user EXCEPT ![u.email] = @ + 1]

\* The outcome of a creation that failed and was rolled back.
NothingProvisioned(i) == \A n \in Names : infra[n] # i
RolledBack(i) ==
    /\ inv[i].err # NoErr
    /\ QuotaAsBefore(i)
    /\ NothingProvisioned(i)

\* C3 as claimed: a creation that ran alone and has returned either fully
\* succeeded or failed with the counters at their pre-call values and the
\* infrastructure it provisioned destroyed.
C3_Original ==
    \A i \in Invs :
        (RanAlone(i) /\ Done(inv[i])) => (FullSuccess(i) \/ RolledBack(i))

\* C3 (amended): a creation that ran alone and has returned either fully
\* succeeded, or failed with one error and no record added, with the counters
\* at their pre-call values unless the directory lookup of the user step's
\* backward failed, and with the infrastructure it provisioned destroyed
\* unless getProvisioner or DestroyJob failed in the provision step's backward.
C3_AllOrNothingBarringCompensationFailure ==
    \A i \in Invs :
        (RanAlone(i) /\ Done(inv[i])) =>
            \/ FullSuccess(i)
            \/ /\ inv[i].err # NoErr
               /\ store = inv[i].pre.store
               /\ ~ReleaseFailed(inv[i]) => QuotaAsBefore(i)
               /\ ~DestroyFailed(inv[i]) => NothingProvisioned(i)

\* Both outcomes, each of a creation that ran alone: one succeeded, and one
\* failed at the persist step and was rolled back through all three backwards.
C3_Witness ==
    /\ \E i \in Invs : RanAlone(i) /\ Done(inv[i]) /\ FullSuccess(i)
    /\ \E i \in Invs :
         /\ Done(inv[i]) /\ ~inv[i].overlap /\ ~inv[i].bwFailed
         /\ inv[i].failedAt = 4 /\ inv[i].bwLog = <<3, 2, 1>>
         /\ CalledOk(inv[i], "DestroyJob", inv[i].params[1].name)

\* C4: whenever the store holds a record inserted by an invocation, that
\* invocation has returned with success: an invocation that fails, or is
\* compensating, never has a record of its own in the store.
C4_FailedCreationLeavesNoRecord ==
    \A i \in Invs :
        (\E r \in store : r.by = i) => Succeeded(inv[i])

\* A creation reached InsertOne, the insert failed, and the creation returned
\* its failure.
C4_Witness ==
    \E i \in Invs :
        /\ Failed(inv[i]) /\ inv[i].failedAt = 4
        /\ Called(inv[i], "InsertOne")
        /\ \A r \in store : r.by # i

\* C5 as claimed: a creation (job and user given) of a name that is in the
\* store already returns already-exists, with the counters at their pre-call
\* values.
C5_Original ==
    \A i \in Invs :
        (RanAlone(i) /\ Done(inv[i]) /\ WithUser(inv[i]) /\ ExistedBefore(i)) =>
            inv[i].err = ErrJobAlreadyExists /\ QuotaAsBefore(i)

\* C5 (amended): a creation of a name that is in the store already fails and
\* adds no record; its error is already-exists exactly when it reached the
\* persist step and the store could be read (an earlier step that fails, such
\* as a denied reservation, returns its own error first); and after it returns
\* the counters equal their pre-call values unless the directory lookup of the
\* user step's backward failed.
C5_SecondCreationFails ==
    \A i \in Invs :
        (RanAlone(i) /\ Done(inv[i]) /\ WithUser(inv[i]) /\ ExistedBefore(i)) =>
            LET s == inv[i]
            IN /\ s.err # NoErr
               /\ store = s.pre.store
               /\ (s.failedAt = 4 /\ s.err # ErrStore) <=> s.err = ErrJobAlreadyExists
               /\ ~ReleaseFailed(s) => QuotaAsBefore(i)

\* The job was created, and created again: the second creation returned
\* already-exists and the counters are back at their pre-call values.
C5_Witness ==
    \E i \in Invs :
        /\ RanAlone(i) /\ Done(inv[i]) /\ WithUser(inv[i]) /\ ExistedBefore(i)
        /\ inv[i].err = ErrJobAlreadyExists
        /\ ~inv[i].bwFailed
        /\ CalledOk(inv[i], "TeamQuota.Inc-1", inv[i].params[1].team)
        /\ QuotaAsBefore(i)

\* C6 as claimed: when a creation that ran alone failed at the persist step
\* with already-exists and every compensation call succeeded, the store, the
\* orchestrator and the ledger are as they were before the attempt.
C6_Original ==
    \A i \in Invs :
        (/\ RanAlone(i) /\ Done(inv[i])
         /\ inv[i].err = ErrJobAlreadyExists /\ ~inv[i].bwFailed) =>
            /\ store = inv[i].pre.store
            /\ infra = inv[i].pre.infra
            /\ QuotaAsBefore(i)

\* C7 as claimed: the store never holds two records of one name, and a
\* creation whose InsertOne was refused because of another creation's record
\* of the name returned already-exists.
C7_Original ==
    /\ \A n \in Names : Cardinality({r \in store : r.name = n}) <= 1
    /\ \A i \in Invs :
         LET s == inv[i]
         IN (/\ Done(s) /\ Called(s, "InsertOne") /\ s.err # ErrStore
             /\ \E r \in store : r.name = s.params[1].name /\ r.by # i) =>
                s.err = ErrJobAlreadyExists

\* Call p of s is preceded by a successful call of op on arg.
PrecededByOk(s, p, op, arg) ==
    \E q \in 1..(p - 1) : s.calls[q] = <<op, arg, NoErr>>

\* C8: EnsureJob (and the getProvisioner before it) is called only after the
\* team reservation and the user reservation of the same invocation succeeded
\* (for a token-derived user: after the user step returned its result); no
\* call of the driver or of the store follows a reservation that was denied
\* or failed; and the store is read or written only after EnsureJob succeeded.
C8_ReserveThenProvisionThenPersist ==
    \A i \in Invs :
        LET s == inv[i]
            j == s.params[1]
            u == s.params[2]
        IN \A p \in 1..Len(s.calls) :
            /\ s.calls[p][1] \in {"EnsureJob", "getProvisioner"} =>
                 /\ PrecededByOk(s, p, "TeamQuota.Inc+1", j.team)
                 /\ u.fromToken \/ PrecededByOk(s, p, "UserQuota.Inc+1", u.email)
                 /\ Len(s.results) >= 2
            /\ (s.calls[p][1] \in {"TeamQuota.Inc+1", "UserQuota.Inc+1"}
                  /\ s.calls[p][3] # NoErr) =>
                 \A q \in (p + 1)..Len(s.calls) :
                    s.calls[q][1] \notin {"EnsureJob", "getProvisioner",
                                          "JobsCollection", "GetByName", "InsertOne"}
            /\ s.calls[p][1] \in {"JobsCollection", "GetByName", "InsertOne"} =>
                 /\ PrecededByOk(s, p, "EnsureJob", j.name)
                 /\ Len(s.results) >= 3

\* One creation was denied its team reservation and called nothing else, and
\* one went through both reservations, EnsureJob and the insert.
C8_Witness ==
    /\ \E i \in Invs :
         /\ Done(inv[i])
         /\ inv[i].calls = <<<<"TeamQuota.Inc+1", inv[i].params[1].team,
                               ErrQuotaExceeded>>>>
    /\ \E i \in Invs :
         /\ CalledOk(inv[i], "UserQuota.Inc+1", "u1")
         /\ CalledOk(inv[i], "EnsureJob", inv[i].params[1].name)
         /\ Called(inv[i], "InsertOne")

\* C9: a run of the creation pipeline with fewer parameters than one of its
\* actions declares returns the validation error with no forward executed, no
\* backward invoked and no collaborator called, and leaves the ledger, the
\* store and the orchestrator as they are (no step of such a run changes them).
C9_TooFewParametersFailBeforeAnySideEffect ==
    \A i \in Invs :
        LET s == inv[i]
            P == Pipeline(s.kind)
        IN (Started(s) /\ \E k \in 1..Len(P) : Len(s.params) < MinParams(P[k])) =>
             /\ s.fwLog = <<>> /\ s.bwLog = <<>> /\ s.calls = <<>>
             /\ s.results = <<>>
             /\ Done(s) => s.err = ErrPipelineFewParameters
             /\ ~Done(s) => s.pc = "fw" /\ s.step = 1

\* The creation pipeline was run with the job alone and has returned the
\* validation error.
C9_Witness ==
    \E i \in Invs :
        /\ Done(inv[i]) /\ Len(inv[i].params) = 1
        /\ inv[i].err = ErrPipelineFewParameters

\* C10: a creation by a token-derived user makes no call of the user ledger
\* and none of the directory, in its forward pass or in its compensation; the
\* result of its user step has no user key; and the counter of the
\* token-derived user keeps the value it had at the call.
C10_TokenUserIsNeverCharged ==
    \A i \in Invs :
        LET s == inv[i]
        IN (WithUser(s) /\ s.params[2].fromToken) =>
             /\ ~Called(s, "UserQuota.Inc+1")
             /\ ~Called(s, "UserQuota.Inc-1")
             /\ ~Called(s, "GetUserByEmail")
             /\ Len(s.results) >= 2 =>
                  /\ s.results[2].kind = "map"
                  /\ DOMAIN s.results[2].m = {"job"}
             /\ userInUse[s.params[2].email] = s.pre.user[s.params[2].email]

\* A creation by a token-derived user failed at the persist step and the
\* backward of its user step was invoked (and did nothing); another one
\* succeeded.
C10_Witness ==
    /\ \E i \in Invs :
         /\ WithUser(inv[i]) /\ inv[i].params[2].fromToken
         /\ Done(inv[i]) /\ inv[i].failedAt = 4 /\ inv[i].bwLog = <<3, 2, 1>>
    /\ \E i \in Invs :
         WithUser(inv[i]) /\ inv[i].params[2].fromToken /\ Succeeded(inv[i])

\* The backward of step k of invocation i is invoked in this step.
BackwardInvoked(i, k) ==
    /\ Len(inv'[i].bwLog) = Len(inv[i].bwLog) + 1
    /\ inv'[i].bwLog[Len(inv'[i].bwLog)] = k

\* The calls invocation i makes in this step.
CallsOfStep(i) ==
    {inv'[i].calls[p] : p \in (Len(inv[i].calls) + 1)..Len(inv'[i].calls)}

\* The entity under key in the forward result r of a reservation step.
Recorded(r, key) == r.kind = "map" /\ key \in DOMAIN r.m

\* The ledger after one unit of the entity is released.
Released(inUse, entity) == [inUse EXCEPT ![entity] = @ - 1]

\* C11 as claimed: the backward of the team step (of the user step)
\* decrements by one the counter of the team (of the user) recorded in the
\* step's own forward result, and changes no other counter.
C11_Original ==
    [][\A i \in Invs :
         LET r1 == inv[i].results[1]
             r2 == inv[i].results[2]
         IN /\ BackwardInvoked(i, 1) =>
                 /\ userInUse' = userInUse
                 /\ teamInUse' = IF Recorded(r1, "team")
                                 THEN Released(teamInUse, r1.m["team"])
                                 ELSE teamInUse
            /\ BackwardInvoked(i, 2) =>
                 /\ teamInUse' = teamInUse
                 /\ userInUse' = IF Recorded(r2, "user")
                                 THEN Released(userInUse, r2.m["user"])
                                 ELSE userInUse]_vars

\* C11 (amended): the backward of the team step decrements by one the counter
\* of the team recorded in the step's own forward result; the backward of the
\* user step decrements by one the counter of the user recorded in its own
\* forward result when the directory lookup of that user succeeds, and changes
\* nothing when the lookup fails or the result records no user; neither
\* backward changes any other counter.  So a forward followed by its backward
\* leaves every counter at its prior value unless that lookup failed.
C11_BackwardReleasesItsOwnReservation ==
    [][\A i \in Invs :
         LET r1 == inv[i].results[1]
             r2 == inv[i].results[2]
         IN /\ BackwardInvoked(i, 1) =>
                 /\ userInUse' = userInUse
                 /\ teamInUse' = IF Recorded(r1, "team")
                                 THEN Released(teamInUse, r1.m["team"])
                                 ELSE teamInUse
            /\ BackwardInvoked(i, 2) =>
                 /\ teamInUse' = teamInUse
                 /\ userInUse' =
                      IF /\ Recorded(r2, "user")
                         /\ <<"GetUserByEmail", r2.m["user"], NoErr>> \in CallsOfStep(i)
                      THEN Released(userInUse, r2.m["user"])
                      ELSE userInUse]_vars

\* A creation failed at the provision step and both reservations were
\* released by their backwards: the counters of its team and of its user are
\* back at their values at the call, and one backward of a user step found no
\* user in the directory.
C11_Witness ==
    /\ \E i \in Invs :
         LET s == inv[i]
         IN /\ Done(s) /\ RanAlone(i) /\ s.failedAt = 3 /\ s.bwLog = <<2, 1>>
            /\ CalledOk(s, "UserQuota.Inc+1", "u1")
            /\ CalledOk(s, "UserQuota.Inc-1", "u1")
            /\ CalledOk(s, "TeamQuota.Inc-1", s.params[1].team)
            /\ QuotaAsBefore(i)
    /\ \E i \in Invs : ReleaseFailed(inv[i])

\* The ledger, the store and the orchestrator before any creation was called.
Initial ==
    IF \E i \in Invs : inv[i].order = 1
    THEN inv[CHOOSE i \in Invs : inv[i].order = 1].pre
    ELSE inv[CHOOSE i \in Invs : TRUE].pre

AllFinished == \A i \in Invs : ~Active(inv[i])

\* The creations that succeeded and were charged to team t (to user e).
TeamSuccesses(t) ==
    Cardinality({i \in Invs : Succeeded(inv[i]) /\ inv[i].params[1].team = t})
UserSuccesses(e) ==
    Cardinality({i \in Invs : /\ Succeeded(inv[i])
                              /\ inv[i].params[2].email = e
                              /\ ~inv[i].params[2].fromToken})

\* The creations that failed and whose user step's backward could not look
\* user e up in the directory.
UserNotReleased(e) ==
    Cardinality({i \in Invs :
        /\ Failed(inv[i])
        /\ \E p \in 1..Len(inv[i].calls) :
             /\ inv[i].calls[p][1] = "GetUserByEmail"
             /\ inv[i].calls[p][2] = e
             /\ inv[i].calls[p][3] # NoErr})

\* C12 as claimed: under any interleaving of the creations, no counter
\* exceeds its ceiling or drops below its initial value, and once every
\* creation has finished each counter equals its initial value plus the
\* number of creations charged to it that succeeded.
C12_Original ==
    /\ \A t \in Teams :
         /\ teamInUse[t] <= TeamLimit
         /\ teamInUse[t] >= Initial.team[t]
         /\ AllFinished => teamInUse[t] = Initial.team[t] + TeamSuccesses(t)
    /\ \A e \in Emails :
         /\ userInUse[e] <= UserLimit
         /\ userInUse[e] >= Initial.user[e]
         /\ AllFinished => userInUse[e] = Initial.user[e] + UserSuccesses(e)

\* C12 (amended): under any interleaving of the creations, no counter exceeds
\* its ceiling or drops below its initial value; once every creation has
\* finished, each team counter equals its initial value plus the number of
\* creations charged to the team that succeeded, and each user counter equals
\* its initial value plus the number of creations charged to the user that
\* succeeded plus the number of failed creations whose user reservation was
\* not released because the directory lookup of the backward failed.
C12_CountersUnderConcurrentCreations ==
    /\ \A t \in Teams :
         /\ teamInUse[t] <= TeamLimit
         /\ teamInUse[t] >= Initial.team[t]
         /\ AllFinished => teamInUse[t] = Initial.team[t] + TeamSuccesses(t)
    /\ \A e \in Emails :
         /\ userInUse[e] <= UserLimit
         /\ userInUse[e] >= Initial.user[e]
         /\ AllFinished =>
              userInUse[e] = Initial.user[e] + UserSuccesses(e) + UserNotReleased(e)

\* Two creations charged to the same team and user ran interleaved with one
\* unit left: one succeeded, the other was denied the team reservation, and
\* the counters are one above their initial values.
C12_Witness ==
    \E i, j \in Invs :
        /\ i # j /\ inv[i].overlap /\ inv[j].overlap
        /\ Succeeded(inv[i]) /\ Failed(inv[j])
        /\ inv[i].params[1].team = "t1" /\ inv[j].params[1].team = "t1"
        /\ inv[i].params[2].email = "u1"
        /\ <<"TeamQuota.Inc+1", "t1", ErrQuotaExceeded>> \in
              {inv[j].calls[p] : p \in 1..Len(inv[j].calls)}
        /\ teamInUse["t1"] = TeamLimit /\ teamInUse["t1"] = Initial.team["t1"] + 1
        /\ userInUse["u1"] = Initial.user["u1"] + 1

\* The first call of s that failed (0: none did).  GetByName's answer that
\* there is no record of the name is the answer the persist step needs, and is
\* no failure.
FirstFailure(s) ==
    LET F == {p \in 1..Len(s.calls) :
                /\ s.calls[p][3] # NoErr
                /\ ~(s.calls[p][1] = "GetByName" /\ s.calls[p][3] = ErrJobNotFound)}
    IN IF F = {} THEN 0 ELSE CHOOSE p \in F : \A q \in F : p <= q

\* Calls made by backwards only.
BackwardOps == {"TeamQuota.Inc-1", "UserQuota.Inc-1", "GetUserByEmail",
                "DestroyJob", "RemoveJob"}

\* A reservation of s was denied by the ledger; the persist step of s found a
\* record of the name.
Denied(s) ==
    \E p \in 1..Len(s.calls) :
        /\ s.calls[p][1] \in {"TeamQuota.Inc+1", "UserQuota.Inc+1"}
        /\ s.calls[p][3] = ErrQuotaExceeded
FoundAtPersist(s) == CalledOk(s, "GetByName", s.params[1].name)

\* C19: the error a creation holds is the error of the forward that stopped
\* it, and no compensation outcome changes it: it is quota-exceeded exactly
\* when the ledger denied a reservation, already-exists exactly when the
\* persist step found a record of the name, and otherwise (parameter
\* validation aside) it is the error of the first collaborator call that
\* failed, a call of the forward pass (ledger, driver or store), unchanged; a
\* creation with no error has had no call fail and found no record.
C19_ForwardErrorReturnedVerbatim ==
    \A i \in Invs :
        LET s == inv[i]
            p == FirstFailure(s)
        IN /\ s.failedAt > 0 => s.err = s.fwErr /\ s.err # NoErr
           /\ s.err = ErrQuotaExceeded <=> Denied(s)
           /\ s.err = ErrJobAlreadyExists <=> (Started(s) /\ FoundAtPersist(s))
           /\ s.err \notin {NoErr, ErrQuotaExceeded, ErrJobAlreadyExists,
                            ErrPipelineFewParameters} =>
                /\ p > 0
                /\ s.calls[p][3] = s.err
                /\ s.calls[p][1] \notin BackwardOps
                /\ s.err \in {ErrLedger, ErrProvisioner, ErrDriver, ErrStore,
                              ErrDuplicateKey}
           /\ s.err = NoErr => p = 0

\* One creation was denied its user reservation and returned quota-exceeded
\* after its team reservation was released; another returned the error of
\* the driver although its own compensation failed afterwards.
C19_Witness ==
    /\ \E i \in Invs :
         /\ Done(inv[i]) /\ inv[i].failedAt = 2 /\ inv[i].bwLog = <<1>>
         /\ inv[i].err = ErrQuotaExceeded
    /\ \E i \in Invs :
         /\ Done(inv[i]) /\ inv[i].failedAt = 3 /\ inv[i].bwFailed
         /\ inv[i].err = ErrDriver

\* C20: every forward call of an invocation received the invocation's full
\* parameter list, unchanged, and as previous result the result of the step
\* just before it (none for the first step); every backward call received the
\* same parameter list and the result that the forward of its own step
\* returned in this invocation.
C20_ResultThreading ==
    \A i \in Invs :
        LET s == inv[i]
        IN /\ Len(s.fwArgs) = Len(s.fwLog) /\ Len(s.bwArgs) = Len(s.bwLog)
           /\ \A p \in 1..Len(s.fwArgs) :
                /\ s.fwArgs[p].params = s.params
                /\ s.fwArgs[p].previous =
                     IF s.fwLog[p] = 1 THEN NilResult
                     ELSE s.results[s.fwLog[p] - 1]
           /\ \A p \in 1..Len(s.bwArgs) :
                /\ s.bwArgs[p].params = s.params
                /\ s.bwArgs[p].fwResult = s.results[s.bwLog[p]]

\* A creation failed at the persist step: its four forwards were called with
\* the previous results in turn, and its three backwards with the results of
\* the provision step (nil), of the user step and of the team step.
C20_Witness ==
    \E i \in Invs :
        LET s == inv[i]
        IN /\ Done(s) /\ s.failedAt = 4 /\ s.bwLog = <<3, 2, 1>>
           /\ Len(s.fwArgs) = 4
           /\ s.fwArgs[3].previous =
                MapResult([job |-> s.params[1].name, user |-> "u1"])
           /\ s.bwArgs[1].fwResult = NilResult
           /\ s.bwArgs[2].fwResult =
                MapResult([job |-> s.params[1].name, user |-> "u1"])
           /\ s.bwArgs[3].fwResult =
                MapResult([job |-> s.params[1].name, team |-> s.params[1].team])

\* The calls on whose outcome the forward pass of an update depends
\* (jobUpdateDB.Forward's own GetByName is not one: its error is not returned).
UpdateOps == {"UpdateJobProv", "updateJobDB.JobsCollection",
              "updateJobDB.GetByName", "updateJobDB.ReplaceOne"}

\* The error of the first of those calls that failed, nil if none did.
FirstUpdateError(s) ==
    LET F == {p \in 1..Len(s.calls) :
                s.calls[p][1] \in UpdateOps /\ s.calls[p][3] # NoErr}
    IN IF F = {} THEN NoErr
       ELSE s.calls[CHOOSE p \in F : \A q \in F : p <= q][3]

\* The update pipeline, or a pipeline composed with its store-replace step.
Updates(s) == Started(s) /\ s.kind \in {"update", "composed"}

\* Invocation i updates a job with a record identical to the one stored when
\* it was called, and no other invocation ran meanwhile.
Identical(i) ==
    /\ Updates(inv[i]) /\ RanAlone(i)
    /\ \E r \in inv[i].pre.store : DeepEqual(r, inv[i].params[1])

\* C13: an update with a record identical to the stored one calls no
\* ReplaceOne, leaves the store as it is, and returns success: its error is
\* nil whenever the driver and the store answered its calls (were
\* UpdateJobProv, JobsCollection or updateJobDB's read of the record to fail,
\* the error returned is that call's).
C13_IdenticalUpdateWritesNothing ==
    \A i \in Invs :
        Identical(i) =>
            /\ ~Called(inv[i], "updateJobDB.ReplaceOne")
            /\ store = inv[i].pre.store
            /\ Done(inv[i]) => inv[i].err = FirstUpdateError(inv[i])

\* The update pipeline was run with the record as stored: it read the record
\* in updateJobDB, wrote nothing and returned success.
C13_Witness ==
    \E i \in Invs :
        LET s == inv[i]
        IN /\ Identical(i) /\ s.kind = "update" /\ Succeeded(s)
           /\ CalledOk(s, "updateJobDB.GetByName", s.params[1].name)
           /\ ~Called(s, "updateJobDB.ReplaceOne")

\* The place of the store-replace step in the pipeline of s.
DBStep(s) == IF s.kind = "update" THEN 2 ELSE 1

\* jobUpdateDB.Forward's own read of the current record failed; the forward
\* of the store-replace step has returned.
OwnReadFailed(s) ==
    \E p \in 1..Len(s.calls) : s.calls[p][1] = "GetByName" /\ s.calls[p][3] # NoErr
DBForwardReturned(s) ==
    Len(s.results) >= DBStep(s) \/ s.failedAt = DBStep(s)

\* The record of the job's name that was stored when i was called differs
\* from the job.
DiffersFromStored(i) ==
    \E r \in inv[i].pre.store :
        r.name = inv[i].params[1].name /\ ~DeepEqual(r, inv[i].params[1])

\* C14 as claimed: whenever the store-replace step's read of the current
\* record fails, the step calls ReplaceOne before it returns.
C14_Original ==
    \A i \in Invs :
        LET s == inv[i]
        IN (Updates(s) /\ OwnReadFailed(s) /\ DBForwardReturned(s)) =>
               Called(s, "updateJobDB.ReplaceOne")

\* C14 (amended): whenever the store-replace step's read of the current record
\* fails, the step still calls updateJobDB with the new record, and its result
\* is nil; updateJobDB reads the record again and calls ReplaceOne only if
\* JobsCollection and that second read succeed, and then does call it if the
\* record differs from the new one; when the job has no record, no ReplaceOne
\* is called and the step fails.
C14_FailedReadStillCallsUpdateJobDB ==
    \A i \in Invs :
        LET s == inv[i]
            n == s.params[1].name
        IN (Updates(s) /\ OwnReadFailed(s) /\ DBForwardReturned(s)) =>
             /\ Called(s, "updateJobDB.JobsCollection")
             /\ Len(s.results) >= DBStep(s) => s.results[DBStep(s)] = NilResult
             /\ Called(s, "updateJobDB.ReplaceOne") =>
                    /\ CalledOk(s, "updateJobDB.JobsCollection", "jobs")
                    /\ CalledOk(s, "updateJobDB.GetByName", n)
             /\ (/\ RanAlone(i) /\ DiffersFromStored(i)
                 /\ CalledOk(s, "updateJobDB.GetByName", n)) =>
                    Called(s, "updateJobDB.ReplaceOne")
             /\ (RanAlone(i) /\ ~ExistedBefore(i)) =>
                    /\ ~Called(s, "updateJobDB.ReplaceOne")
                    /\ s.failedAt = DBStep(s)

\* In one update the first read failed, the second succeeded and the record
\* was replaced; in one update of a job with no record both reads answered
\* not-found and nothing was written.
C14_Witness ==
    /\ \E i \in Invs :
         LET s == inv[i]
         IN /\ s.kind = "update" /\ Succeeded(s)
            /\ <<"GetByName", "alpha", ErrStore>> \in
                  {s.calls[p] : p \in 1..Len(s.calls)}
            /\ CalledOk(s, "updateJobDB.ReplaceOne", "alpha")
            /\ s.results[2] = NilResult
    /\ \E i \in Invs :
         LET s == inv[i]
         IN /\ s.kind = "update" /\ Failed(s)
            /\ <<"GetByName", "beta", ErrJobNotFound>> \in
                  {s.calls[p] : p \in 1..Len(s.calls)}
            /\ ~Called(s, "updateJobDB.ReplaceOne")

\* Invocation i ran the composed pipeline alone: the forward of its
\* store-replace step succeeded, the step after it failed, and it has returned.
LaterStepFailed(i) ==
    /\ inv[i].kind = "composed" /\ RanAlone(i)
    /\ Done(inv[i]) /\ inv[i].failedAt = 2

\* C15 as claimed: when the forward of the store-replace step succeeded and a
\* later step failed, the store is as it was before the forward ran.
C15_Original ==
    \A i \in Invs : LaterStepFailed(i) => store = inv[i].pre.store

\* The driver has accepted the spec of invocation i's job and the store holds
\* the job's record at that spec; neither has changed since i was called.
BothNew(i) ==
    LET j == inv[i].params[1]
    IN /\ infra[j.name] = j.spec
       /\ \E r \in store : r.name = j.name /\ r.spec = j.spec
BothPrevious(i) ==
    /\ infra = inv[i].pre.infra
    /\ store = inv[i].pre.store

\* C16 as claimed: after an invocation of the update pipeline that ran alone
\* has returned, with success or with failure, the spec the driver accepted
\* for the job and the job's stored record are both the new ones or both the
\* previous ones.
C16_Original ==
    \A i \in Invs :
        (inv[i].kind = "update" /\ RanAlone(i) /\ Done(inv[i])) =>
            (BothNew(i) \/ BothPrevious(i))

\* The driver and the store answered every call the forward pass of the update
\* depends on (an answer that the job has no record is an answer).
NoFault(s) ==
    \A p \in 1..Len(s.calls) :
        s.calls[p][1] \in UpdateOps => s.calls[p][3] \notin {ErrDriver, ErrStore}

\* C17: an update of a job whose name has no record calls no ReplaceOne and
\* leaves the store as it is (no record is created), and it fails: with the
\* job-not-found error whenever the driver and the store answered its calls
\* (were UpdateJobProv, JobsCollection or a read of the store to fail first,
\* the error returned is that call's).
C17_UpdateOfMissingJobFails ==
    \A i \in Invs :
        LET s == inv[i]
        IN (Updates(s) /\ RanAlone(i) /\ ~ExistedBefore(i)) =>
             /\ ~Called(s, "updateJobDB.ReplaceOne")
             /\ store = s.pre.store
             /\ Done(s) =>
                  /\ s.err # NoErr
                  /\ s.err = FirstUpdateError(s)
                  /\ NoFault(s) => s.err = ErrJobNotFound
                  /\ s.err = ErrJobNotFound => s.failedAt = DBStep(s)

\* The update pipeline was run for beta, which has no record: the driver
\* accepted the job, both reads of the store answered not-found, and the update
\* returned job-not-found with the store as it was.
C17_Witness ==
    \E i \in Invs :
        LET s == inv[i]
        IN /\ s.kind = "update" /\ RanAlone(i) /\ ~ExistedBefore(i) /\ Done(s)
           /\ s.err = ErrJobNotFound
           /\ s.calls = << <<"UpdateJobProv", "beta", NoErr>>,
                           <<"GetByName", "beta", ErrJobNotFound>>,
                           <<"updateJobDB.JobsCollection", "jobs", NoErr>>,
                           <<"updateJobDB.GetByName", "beta", ErrJobNotFound>> >>
           /\ store = s.pre.store

\* The calls of TriggerCron made by s, and the outcome of its getProvisioner.
Triggers(s) == {p \in 1..Len(s.calls) : s.calls[p][1] = "TriggerCron"}
Resolved(s) ==
    \E p \in 1..Len(s.calls) :
        s.calls[p][1] = "getProvisioner" /\ s.calls[p][3] = NoErr

\* C18: a run of the trigger pipeline on a job calls TriggerCron at most once,
\* with the job and the job's pool, and exactly once by the time it returns
\* whenever the provisioner of the job's pool was resolved; it returns the
\* outcome of that call (the error of getProvisioner if the provisioner was
\* not resolved); it invokes no backward; it calls nothing but getProvisioner
\* and TriggerCron, and the store and the ledger stay as they are, whether the
\* trigger succeeds or fails; a run that was alone has started one run of the
\* job if it succeeded and none if it failed.
C18_TriggerCallsTheDriverOnce ==
    \A i \in Invs :
        LET s == inv[i]
            j == s.params[1]
        IN (s.kind = "trigger" /\ Started(s) /\ Len(s.params) >= 1) =>
             /\ Cardinality(Triggers(s)) <= 1
             /\ \A p \in Triggers(s) :
                  /\ s.calls[p][2] = [job |-> j, pool |-> j.pool]
                  /\ Done(s) /\ s.err = s.calls[p][3]
             /\ (Done(s) /\ Resolved(s)) => Cardinality(Triggers(s)) = 1
             /\ (Done(s) /\ ~Resolved(s)) => s.err = ErrProvisioner
             /\ s.bwLog = <<>> /\ s.bwArgs = <<>>
             /\ \A p \in 1..Len(s.calls) :
                  s.calls[p][1] \in {"getProvisioner", "TriggerCron"}
             /\ store = s.pre.store
             /\ teamInUse = s.pre.team /\ userInUse = s.pre.user
             /\ (RanAlone(i) /\ Done(s)) =>
                  infra = IF s.err = NoErr
                          THEN [s.pre.infra EXCEPT ![j.name] = @ + 1]
                          ELSE s.pre.infra

\* One trigger of alpha in pool p1 succeeded and one trigger of beta in pool
\* p2 was refused by the driver: each called TriggerCron once and no backward.
C18_Witness ==
    /\ \E i \in Invs :
         LET s == inv[i]
         IN /\ s.kind = "trigger" /\ Succeeded(s) /\ Len(s.calls) = 2
            /\ s.calls[2] = <<"TriggerCron",
                              [job |-> JobSpec("alpha", "p1", "v1", "empty"),
                               pool |-> "p1"], NoErr>>
            /\ infra["alpha"] = 1
    /\ \E i \in Invs :
         LET s == inv[i]
         IN /\ s.kind = "trigger" /\ Failed(s) /\ Len(s.calls) = 2
            /\ s.calls[2][1] = "TriggerCron" /\ s.calls[2][3] = ErrDriver
            /\ s.params[1].pool = "p2"
            /\ s.bwLog = <<>>

\* Every forward of the pipeline of s was called and returned a result.
EveryForwardSucceeded(s) ==
    /\ Len(s.results) = Len(Pipeline(s.kind))
    /\ s.fwLog = [k \in 1..Len(Pipeline(s.kind)) |-> k]

\* C21: a run that has returned holds no error exactly when every forward of
\* its pipeline succeeded, and its output is then the result of the last
\* forward (for a creation: the job, whose record is the one it inserted); a
\* run in which a forward failed, or that failed the validation, has returned
\* an error and the nil output; a run that has not returned has no output.
C21_OutputIsLastResultOrError ==
    \A i \in Invs :
        LET s == inv[i]
        IN /\ Done(s) =>
                /\ s.err = NoErr <=> EveryForwardSucceeded(s)
                /\ s.err = NoErr =>
                     /\ s.out = s.results[Len(s.results)]
                     /\ s.failedAt = 0
                     /\ s.kind = "create" =>
                          /\ s.out = JobResult(s.params[1])
                          /\ CalledOk(s, "InsertOne", s.params[1].name)
                /\ s.err # NoErr => s.out = NilResult
           /\ ~Done(s) => s.out = NilResult

\* One creation returned the job it inserted; another failed at the provision
\* step, after two forwards had returned results, and returned no output.
C21_Witness ==
    /\ \E i \in Invs :
         /\ Succeeded(inv[i])
         /\ inv[i].out = JobResult(inv[i].params[1])
         /\ \E r \in store : r.by = i
    /\ \E i \in Invs :
         /\ Failed(inv[i]) /\ inv[i].failedAt = 3 /\ Len(inv[i].results) = 2
         /\ inv[i].out = NilResult

\* The forward (the backward) of a step of invocation i is started in this
\* step of the run.
ForwardStarts(i) == Len(inv'[i].fwLog) = Len(inv[i].fwLog) + 1
BackwardStarts(i) == Len(inv'[i].bwLog) = Len(inv[i].bwLog) + 1

\* C22: within one invocation a forward is started only while the executor is
\* in its forward pass with no forward in progress and none failed, and it is
\* the forward of the step after the last one that returned a result (so the
\* forwards are started in listed order, each after the one before it
\* returned successfully); a backward is started only after a forward has
\* failed and returned its error, with no forward in progress; and no step
\* starts a forward and a backward at once.
C22_ForwardsRunOneAfterTheOther ==
    [][\A i \in Invs :
         LET s == inv[i]
         IN /\ ForwardStarts(i) =>
                 /\ s.pc = "fw" /\ s.failedAt = 0 /\ s.err = NoErr
                 /\ Len(s.results) = Len(s.fwLog)
                 /\ s.fwLog = [k \in 1..Len(s.fwLog) |-> k]
                 /\ inv'[i].fwLog = Append(s.fwLog, Len(s.results) + 1)
                 /\ inv'[i].bwLog = s.bwLog /\ s.bwLog = <<>>
            /\ BackwardStarts(i) =>
                 /\ s.pc = "bw" /\ s.failedAt > 0 /\ s.err # NoErr
                 /\ s.fwLog = [k \in 1..s.failedAt |-> k]
                 /\ Len(s.results) = s.failedAt - 1
                 /\ inv'[i].fwLog = s.fwLog
            /\ (~ForwardStarts(i) /\ ~BackwardStarts(i)) =>
                 /\ inv'[i].fwLog = s.fwLog /\ inv'[i].bwLog = s.bwLog]_vars

\* A creation is inside the forward of its persist step (the lookup has
\* returned, the insert has not) with three results recorded; another has
\* failed at its provision step and is about to start its first backward.
C22_Witness ==
    /\ \E i \in Invs :
         /\ inv[i].pc = "ij_insert" /\ inv[i].fwLog = <<1, 2, 3, 4>>
         /\ Len(inv[i].results) = 3 /\ inv[i].bwLog = <<>>
    /\ \E i \in Invs :
         /\ inv[i].pc = "bw" /\ inv[i].failedAt = 3 /\ inv[i].bwIdx = 2
         /\ inv[i].fwLog = <<1, 2, 3>> /\ inv[i].bwLog = <<>>

\* ---------------------------------------------------------------------- C23
Canceled(s) == s.fwErr = ErrCanceled

OwnArgs(s) ==
    {s.params[1].name, s.params[1].team, s.params[1].pool, "jobs"}
      \cup (IF WithUser(s) THEN {s.params[2].email} ELSE {})

\* The job a forward result was recorded for ("" when the result names none).
JobOf(r) ==
    IF r.kind = "map" THEN r.m["job"]
    ELSE IF r.kind = "job" THEN r.job.name
    ELSE ""

\* C24: when two invocations run the creation pipeline on different jobs, one
\* after the other or concurrently, every forward and backward call of one
\* receives that invocation's parameters and only results recorded for its own
\* job, never a result the other one recorded, and every collaborator call it
\* makes is on its own job, team or user.
C24_InvocationsShareNoState ==
    \A i \in Invs : \A j \in Invs \ {i} :
        LET s == inv[i]
            o == inv[j]
        IN (Started(s) /\ Started(o) /\ s.params[1] # o.params[1]) =>
              /\ \A p \in 1..Len(s.fwArgs) :
                   /\ s.fwArgs[p].params = s.params
                   /\ JobOf(s.fwArgs[p].previous) \in {"", s.params[1].name}
                   /\ s.fwArgs[p].previous \in
                        {NilResult} \cup {s.results[k] : k \in 1..Len(s.results)}
              /\ \A p \in 1..Len(s.bwArgs) :
                   /\ s.bwArgs[p].params = s.params
                   /\ JobOf(s.bwArgs[p].fwResult) \in {"", s.params[1].name}
                   /\ s.bwArgs[p].fwResult \in
                        {s.results[k] : k \in 1..Len(s.results)}
              /\ \A p \in 1..Len(s.calls) : s.calls[p][2] \in OwnArgs(s)

\* Two creations of different jobs overlapped; one failed at the provision
\* step and rolled its two reservations back while the other had recorded the
\* results of its own reservations.
C24_Witness ==
    \E i \in Invs : \E j \in Invs \ {i} :
        /\ inv[i].overlap /\ inv[j].overlap
        /\ inv[i].params[1] # inv[j].params[1]
        /\ Done(inv[i]) /\ inv[i].failedAt = 3 /\ inv[i].bwLog = <<2, 1>>
        /\ Len(inv[j].results) >= 2
        /\ inv[j].results[1] # inv[i].results[1]

\* ---------------------------------------------------------------------- C27
\* The positions of the invocation's calls of op.
CallsOf(s, op) == {p \in 1..Len(s.calls) : s.calls[p][1] = op}

\* C27: the persist step calls InsertOne only right after its own GetByName
\* reported not-found.  When GetByName found a record the step returns
\* already-exists, and when GetByName failed otherwise it returns that error:
\* in both cases the invocation makes no InsertOne and the store holds no
\* record written by it.
C27_InsertOnlyWhenNotFound ==
    \A i \in Invs :
        LET s == inv[i]
            n == s.params[1].name
        IN /\ \A p \in CallsOf(s, "InsertOne") :
                p > 1 /\ s.calls[p - 1] = <<"GetByName", n, ErrJobNotFound>>
           /\ \A p \in CallsOf(s, "GetByName") :
                s.calls[p][3] # ErrJobNotFound =>
                   /\ s.failedAt = 4
                   /\ s.fwErr = IF s.calls[p][3] = NoErr THEN ErrJobAlreadyExists
                                ELSE s.calls[p][3]
                   /\ CallsOf(s, "InsertOne") = {}
                   /\ ~\E r \in store : r.by = i

\* A creation found a record of its job's name, which another creation had
\* inserted: it failed with already-exists and made no InsertOne.
C27_Witness ==
    \E i \in Invs : \E j \in Invs \ {i} :
        /\ Succeeded(inv[j])
        /\ Done(inv[i]) /\ inv[i].err = ErrJobAlreadyExists
        /\ CalledOk(inv[i], "GetByName", inv[i].params[1].name)
        /\ CallsOf(inv[i], "InsertOne") = {}
        /\ store = {[name |-> inv[j].params[1].name,
                     team |-> inv[j].params[1].team, by |-> j]}

\* ---------------------------------------------------------------------- C25
WaitForCalls == {i \in Invs : inv[i].kind = "waitFor" /\ inv[i].pc # "idle"}
Waiting(s) == s.pc \in {"poll", "select"}
CanceledByDeadline(s) ==
    /\ Done(s) /\ s.ctxErr = ErrDeadlineExceeded
    /\ s.ret = CanceledAfter(s.onCancel, OnCancelResult(s.onCancel),
                             ErrDeadlineExceeded)
    /\ s.called = (s.onCancel # "none")

\* What holds of a waitFor call at every moment: it goes on waiting only after
\* fn said not done without error; once fn returned an error the call has
\* returned that error, and once fn said done without error it has returned
\* nil, in both cases without calling onCancel; and a call that returned
\* anything else returned the cancellation error, after the deadline, with
\* onCancel called if one was given.
WaitForReturns(s) ==
    /\ (s.pc = "select" \/ (s.pc = "poll" /\ s.last # <<>>)) =>
          s.last = <<FALSE, NilErr>>
    /\ (s.last # <<>> /\ s.last[2] # NilErr) =>
          Done(s) /\ s.ret = s.last[2] /\ ~s.called
    /\ s.last = <<TRUE, NilErr>> => Done(s) /\ s.ret = NilErr /\ ~s.called
    /\ Done(s) =>
          \/ s.last # <<FALSE, NilErr>>
          \/ CanceledByDeadline(s)
    /\ ~Done(s) => ~s.called

WaitForPodCalls == {i \in Invs : inv[i].kind = "waitForPod" /\ inv[i].seen # ""}

\* The phase of the pod a call waits for.
PhaseOf(s) == IF s.pod \in Pods THEN infra[s.pod] ELSE NoPod

\* The phases on which the wait goes on: Pending, and Running when the caller
\* did not ask for running.
KeepsWaitingOn(s, phase) ==
    phase = "Pending" \/ (phase = "Running" /\ ~s.running)

\* What holds of a waitForPod call, by the phase it last read of its pod.
WaitForPodReturns(s) ==
    /\ (s.seen = "Succeeded" \/ (s.seen = "Running" /\ s.running)) =>
          Done(s) /\ s.ret = NilErr
    /\ s.seen \in {"Failed", "Unknown"} =>
          Done(s) /\ s.ret = InvalidPodPhase(s.seen)
    /\ s.seen = NoPod => Done(s) /\ s.ret = ErrPodNotFound
    /\ KeepsWaitingOn(s, s.seen) => Waiting(s) \/ CanceledByDeadline(s)

Handed(i) ==
    /\ inv[i].kind = "database" /\ Done(inv[i]) /\ inv[i].err = NoErr

\* The clients whose index creation completed, and those for which it failed.
SetUp == {infra.ensured[p][1] : p \in {q \in 1..Len(infra.ensured) :
                                          infra.ensured[q][2] = NoErr}}
SetUpFailed == {infra.ensured[p][1] : p \in {q \in 1..Len(infra.ensured) :
                                                infra.ensured[q][2] # NoErr}}

\* C28 (as stated): a client whose index creation failed is not left in the
\* global pointer, and no call of database() succeeds with a client whose
\* index creation failed.
C28_Original ==
    /\ store.client \notin SetUpFailed
    /\ \A i \in Invs : Handed(i) => inv[i].ret \notin SetUpFailed

\* ---------------------------------------------------------------------- C29
\* The runs of EnsureIndexesCreated on client c.
IndexRuns(c) == {p \in 1..Len(infra.ensured) : infra.ensured[p][1] = c}

\* C29: under every interleaving of database() calls, a client held by the
\* global pointer is never replaced by another client (only Reset() clears
\* the pointer), so that without a Reset() at most one client is ever
\* installed; and EnsureIndexesCreated is run only by the caller whose
\* compare-and-swap installed its client, on that client, and at most once for
\* a client.
C29_ClientInstalledOnce ==
    [][/\ (store.client # NoClient /\ store'.client # store.client) =>
             /\ store'.client = NoClient
             /\ infra'.resets = infra.resets + 1
       /\ Len(infra'.installed) <= infra'.resets + 1
       /\ \A i \in Invs :
            (inv[i].pc = "indexes" /\ inv'[i].pc # "indexes") =>
               /\ inv[i].swapped
               /\ \E p \in 1..Len(infra.installed) :
                    infra.installed[p] = inv[i].connectedClient
               /\ IndexRuns(inv[i].connectedClient) = {}
               /\ infra'.ensured =
                    Append(infra.ensured,
                           <<inv[i].connectedClient, infra'.ensured[Len(infra'.ensured)][2]>>)
       /\ Len(infra'.ensured) # Len(infra.ensured) =>
            \E i \in Invs : inv[i].pc = "indexes" /\ inv'[i].pc # "indexes"]_vars

\* Two goroutines found the pointer nil and connected at the same time, with
\* no Reset(): one compare-and-swap installed its client and that caller ran
\* the index creation, once; the other one's failed and ran none.
C29_Witness ==
    \E i \in Invs : \E j \in Invs \ {i} :
        /\ infra.resets = 0
        /\ inv[i].n = 1 /\ inv[j].n = 1
        /\ Done(inv[i]) /\ inv[i].swapped /\ store.client = inv[i].connectedClient
        /\ Done(inv[j]) /\ ~inv[j].swapped /\ inv[j].connectedClient = <<j, 1>>
        /\ Len(infra.ensured) = 1
        /\ infra.ensured[1][1] = inv[i].connectedClient
        /\ infra.installed = <<inv[i].connectedClient>>

\* ---------------------------------------------------------------------- C30
\* C30 (as stated): as long as Reset() has not been called, every call of
\* database() that returned a handle returned one of the client held by the
\* global pointer.
C30_Original ==
    infra.resets = 0 =>
       \A i \in Invs : Handed(i) => inv[i].ret = store.client

\* ---------------------------------------------------------------------- C31
\* The calls of database() that have returned.
Returned(i) == inv[i].kind = "database" /\ Done(inv[i])

\* C31: under every interleaving of database(), connect() and Reset(), a
\* database() that returned a handle built it from a client and a database
\* name that are not nil: the two it loaded when both were set, and otherwise
\* the client and the name its own connect() returned; and a database() that
\* returned no handle returned the error of its own connect(), having loaded a
\* nil pointer.
C31_NoNilDereference ==
    \A i \in Invs :
        LET s == inv[i]
            bothSet == s.loaded[1] # NoClient /\ s.loaded[2] # NoName
        IN Returned(i) =>
              /\ s.err = NoErr =>
                    /\ s.ret # NoClient /\ s.databaseName # NoName
                    /\ IF bothSet
                       THEN s.ret = s.loaded[1] /\ s.databaseName = s.loaded[2]
                       ELSE s.ret = <<i, s.n>>
                            /\ s.databaseName = DefaultDatabaseName
              /\ s.err # NoErr =>
                    /\ ~bothSet /\ s.ret = NoClient
                    /\ s.err \in {ErrConnect, ErrIndexes}

\* A database() loaded a client but a nil database name (a Reset() or another
\* connect() was half way), connected itself and returned its own client.
C31_Witness ==
    \E i \in Invs :
        /\ Handed(i)
        /\ inv[i].loaded[1] # NoClient /\ inv[i].loaded[2] = NoName
        /\ inv[i].ret = <<i, inv[i].n>>
        /\ inv[i].databaseName = DefaultDatabaseName

\* ---------------------------------------------------------------------- C32
\* The call of database() has loaded the two pointers and decided.
Decided(s) ==
    s.kind = "database" /\ s.pc \notin {"idle", "load_client", "load_name"}
CalledConnect(s) == s.loaded[1] = NoClient \/ s.loaded[2] = NoName

\* C32 (as stated): a database() called after a connect() completed without
\* error, with no Reset() at work during that connect() or between it and the
\* call's decision, does not call connect() and returns the stored client;
\* and the first database() called after a Reset() returned calls connect().
C32_Original ==
    \A i \in Invs :
        LET s == inv[i]
        IN Decided(s) =>
              /\ (s.start.connected /\ ~s.disturbed) =>
                    /\ ~CalledConnect(s)
                    /\ Done(s) /\ s.ret = s.loaded[1]
              /\ s.start.fresh => CalledConnect(s)

\* C33: the forward of every job Action, called with a first parameter that is
\* no *Job, returns the first-parameter type error, and reserve-user-cronjob's,
\* called with a *Job and a second parameter that is no user (by value or by
\* pointer), returns the second-parameter type error; in both cases the
\* forward has called neither the quota ledger, nor the driver, nor the store,
\* and the step that runs it changes none of them.
NoJobFirst(s) == s.params[1].type # "job"
NoUserSecond(s) ==
    s.kind = "reserve-user-cronjob" /\ ~NoJobFirst(s) /\ ~IsUser(s.params[2])
IllTyped(s) ==
    /\ s.kind \in JobActions
    /\ EnoughParams(s.kind, s.params)
    /\ NoJobFirst(s) \/ NoUserSecond(s)
TypeErrorFor(s) == IF NoJobFirst(s) THEN ErrFirstParam ELSE ErrSecondParam
NoRepeat(log) == \A a, b \in 1..Len(log) : a # b => log[a] # log[b]
AtMostOnceEach(s) ==
    /\ NoRepeat(s.fwLog) /\ Len(s.fwLog) <= Len(Pipeline(s.kind))
    /\ NoRepeat(s.bwLog)
    /\ \A k \in 1..Len(s.bwLog) :
          /\ s.fwErr # NoErr
          /\ s.bwLog[k] <= Len(s.results)
          /\ s.bwLog[k] < s.failedAt
          /\ \E f \in 1..Len(s.fwLog) : s.fwLog[f] = s.bwLog[k]
C34_EveryInvocationTerminates ==
    /\ [](\A i \in Invs : AtMostOnceEach(inv[i]))
    /\ [][\A i \in Invs : Done(inv[i]) => inv'[i] = inv[i]]_vars
    /\ \A i \in Invs : Started(inv[i]) ~> Done(inv[i])
C34_Witness ==
    /\ Done(inv["i1"]) /\ inv["i1"].fwLog = <<1, 2, 3, 4>> /\ inv["i1"].bwLog = <<3, 2, 1>>
    /\ Done(inv["i2"]) /\ inv["i2"].fwLog = <<1, 2, 3, 4>> /\ inv["i2"].bwLog = <<>>
    /\ inv["i1"].overlap

====
